---- MODULE Spec2Model ----
(***************************************************************************)
(* A model of zexe: the bundler (zexe-bundler/src/main.rs) that appends    *)
(* compressed resources and a 20-byte footer to a runner image, the        *)
(* runner's extraction of them (zexe-runner/src/main.rs), and the two      *)
(* snapshot decoders (z80_loader.rs, szx_loader.rs).                       *)
(*                                                                         *)
(* Byte buffers are sequences of integers 0..255, indexed from 1 (the      *)
(* Rust index plus one).                                                   *)
(***************************************************************************)
EXTENDS Integers, Sequences, FiniteSets, TLC

\* ------------------------------------------------------------------------
\* Bytes and little/big-endian integers
\* ------------------------------------------------------------------------

U16 == 65536

\* x as u32, for a length x: every length the model holds is below 2^31, where
\* the conversion changes nothing
AsU32(x) == x


\* vec![v; n]
Fill(n, v) == [k \in 1..n |-> v]

\* &s[from..to] of Rust, 0-based and half-open, on the 1-based sequence
Slice(s, from, to) == SubSeq(s, from + 1, to)

\* u32 -> 4 bytes, least significant first (the in-memory layout of a u32
\* field of the repr(C) Footer on the little-endian targets the tool builds for)
LE32(n) ==
  << n % 256, (n \div 256) % 256, (n \div 65536) % 256, (n \div 16777216) % 256 >>

\* the u32 stored at bytes s[p+1..p+4] (p is the 0-based offset)
FromLE32(s, p) ==
  s[p + 1] + 256 * s[p + 2] + 65536 * s[p + 3] + 16777216 * s[p + 4]

LE16(n) == << n % 256, (n \div 256) % 256 >>
FromLE16(lo, hi) == lo + 256 * hi

\* sum of f[lo..hi] modulo m, by halving (no deep recursion on 16384-byte
\* pages, and no intermediate value beyond the 32-bit integers of TLC)
RECURSIVE SumRange(_, _, _, _)
SumRange(f, lo, hi, m) ==
  IF lo > hi THEN 0
  ELSE IF lo = hi THEN f[lo] % m
  ELSE LET mid == (lo + hi) \div 2
       IN  (SumRange(f, lo, mid, m) + SumRange(f, mid + 1, hi, m)) % m

\* ------------------------------------------------------------------------
\* The generic codec: flate2's ZlibEncoder / ZlibDecoder.
\* The encoder is modelled by a zlib stream of one stored deflate block
\* (RFC 1950 header, RFC 1951 stored block, Adler-32 trailer): a stream
\* every zlib decoder accepts. The decoder accepts exactly such streams and
\* reports an error for a damaged header, block or checksum. The inputs of
\* the model are encoder outputs, or encoder outputs with a damaged byte.
\* ------------------------------------------------------------------------

\* the Adler-32 checksum of x as the 4 bytes the stream ends with (s2 then
\* s1, each most significant byte first)
Adler32(x) ==
  LET n  == Len(x)
      s1 == (1 + SumRange(x, 1, n, 65521)) % 65521
      w  == [k \in 1..n |-> ((n - k + 1) % 65521) * x[k]]
      s2 == (n + SumRange(w, 1, n, 65521)) % 65521
  IN  << s2 \div 256, s2 % 256, s1 \div 256, s1 % 256 >>

ZlibHeader == << 120, 156 >>

ZlibOk(x)  == [ok |-> TRUE, data |-> x]
ZlibErr    == [ok |-> FALSE, data |-> << >>]

compress_data(x) ==
  ZlibHeader \o << 1 >> \o LE16(Len(x)) \o LE16(65535 - Len(x)) \o x
             \o Adler32(x)

decompress_data(y) ==
  IF Len(y) < 11 THEN ZlibErr
  ELSE IF y[1] % 16 # 8 \/ y[1] \div 16 > 7 THEN ZlibErr
  ELSE IF (y[1] * 256 + y[2]) % 31 # 0 \/ (y[2] \div 32) % 2 # 0 THEN ZlibErr
  ELSE IF y[3] % 8 # 1 THEN ZlibErr
  ELSE LET n == FromLE16(y[4], y[5])
           c == FromLE16(y[6], y[7])
       IN  IF c # 65535 - n \/ Len(y) < 11 + n THEN ZlibErr
           ELSE LET x == SubSeq(y, 8, 7 + n)
                IN  IF SubSeq(y, 8 + n, 11 + n) = Adler32(x)
                    THEN ZlibOk(x) ELSE ZlibErr

\* ------------------------------------------------------------------------
\* String::from_utf8: whether the bytes are well-formed UTF-8
\* ------------------------------------------------------------------------

IsCont(b) == b >= 128 /\ b <= 191

RECURSIVE Utf8From(_, _)
Utf8From(s, p) ==
  IF p > Len(s) THEN TRUE
  ELSE LET b == s[p]
           has(k) == p + k <= Len(s)
       IN  IF b < 128 THEN Utf8From(s, p + 1)
           ELSE IF b >= 194 /\ b <= 223
             THEN has(1) /\ IsCont(s[p + 1]) /\ Utf8From(s, p + 2)
           ELSE IF b >= 224 /\ b <= 239
             THEN /\ has(2)
                  /\ IsCont(s[p + 1]) /\ IsCont(s[p + 2])
                  /\ (b = 224 => s[p + 1] >= 160)
                  /\ (b = 237 => s[p + 1] <= 159)
                  /\ Utf8From(s, p + 3)
           ELSE IF b >= 240 /\ b <= 244
             THEN /\ has(3)
                  /\ IsCont(s[p + 1]) /\ IsCont(s[p + 2]) /\ IsCont(s[p + 3])
                  /\ (b = 240 => s[p + 1] >= 144)
                  /\ (b = 244 => s[p + 1] <= 143)
                  /\ Utf8From(s, p + 4)
           ELSE FALSE

from_utf8_ok(s) == Utf8From(s, 1)

\* ------------------------------------------------------------------------
\* Config and serde_json::from_slice::<Config>.
\* The JSON read here is the subset the model's config files are written
\* in: one object, no white space, members "key":value with value one of
\* true, false, null, a non-negative integer, or a string without escapes.
\* Other texts are rejected (the model offers none that serde_json accepts).
\* ------------------------------------------------------------------------

ConfigFields ==
  [ fullscreen     |-> << 102, 117, 108, 108, 115, 99, 114, 101, 101, 110 >>,
    filtering      |-> << 102, 105, 108, 116, 101, 114, 105, 110, 103 >>,
    joystick       |-> << 106, 111, 121, 115, 116, 105, 99, 107 >>,
    border         |-> << 98, 111, 114, 100, 101, 114 >>,
    cheats_enabled |-> << 99, 104, 101, 97, 116, 115, 95, 101, 110, 97, 98, 108, 101, 100 >>,
    volume         |-> << 118, 111, 108, 117, 109, 101 >> ]

\* the JSON literals true, false, null
JsonWords ==
  [ true  |-> << 116, 114, 117, 101 >>,
    false |-> << 102, 97, 108, 115, 101 >>,
    null  |-> << 110, 117, 108, 108 >> ]

NoString == [some |-> FALSE, s |-> << >>]
SomeString(x) == [some |-> TRUE, s |-> x]

default_fullscreen == TRUE
default_joystick   == << 79, 102, 102 >>          \* "Off"
default_border     == << 70, 117, 108, 108 >>      \* "Full"
default_cheats     == FALSE
default_volume     == 100

ConfigDefault ==
  [ fullscreen     |-> TRUE,
    filtering      |-> NoString,
    joystick       |-> default_joystick,
    border         |-> default_border,
    cheats_enabled |-> FALSE,
    volume         |-> 100 ]

IsDigit(b) == b >= 48 /\ b <= 57

\* the first position >= p that holds no digit
RECURSIVE DigitsEnd(_, _)
DigitsEnd(s, p) ==
  IF p <= Len(s) /\ IsDigit(s[p]) THEN DigitsEnd(s, p + 1) ELSE p

RECURSIVE DecimalValue(_, _, _, _)
DecimalValue(s, p, q, acc) ==
  IF p >= q THEN acc ELSE DecimalValue(s, p + 1, q, 10 * acc + (s[p] - 48))

\* the position of the closing quote of a string whose first character is at
\* p, or 0 (unterminated, or a character the subset does not hold)
RECURSIVE QuoteEnd(_, _)
QuoteEnd(s, p) ==
  IF p > Len(s) THEN 0
  ELSE IF s[p] = 34 THEN p
  ELSE IF s[p] = 92 \/ s[p] < 32 THEN 0
  ELSE QuoteEnd(s, p + 1)

HasAt(s, p, w) == p + Len(w) - 1 <= Len(s) /\ SubSeq(s, p, p + Len(w) - 1) = w

JsonBad == [ok |-> FALSE, kind |-> "none", b |-> FALSE, n |-> 0, s |-> << >>, next |-> 0]
JsonVal(kind, b, n, s, next) ==
  [ok |-> TRUE, kind |-> kind, b |-> b, n |-> n, s |-> s, next |-> next]

\* one JSON value starting at p
JsonValue(s, p) ==
  IF p > Len(s) THEN JsonBad
  ELSE IF HasAt(s, p, JsonWords.true)  THEN JsonVal("bool", TRUE, 0, << >>, p + 4)
  ELSE IF HasAt(s, p, JsonWords.false) THEN JsonVal("bool", FALSE, 0, << >>, p + 5)
  ELSE IF HasAt(s, p, JsonWords.null)  THEN JsonVal("null", FALSE, 0, << >>, p + 4)
  ELSE IF IsDigit(s[p])
    THEN LET q == DigitsEnd(s, p)
         IN  IF s[p] = 48 /\ q > p + 1 THEN JsonBad
             ELSE JsonVal("num", FALSE, DecimalValue(s, p, q, 0), << >>, q)
  ELSE IF s[p] = 34
    THEN LET q == QuoteEnd(s, p + 1)
         IN  IF q = 0 \/ ~from_utf8_ok(SubSeq(s, p + 1, q - 1)) THEN JsonBad
             ELSE JsonVal("str", FALSE, 0, SubSeq(s, p + 1, q - 1), q + 1)
  ELSE JsonBad

\* the members from position p (just after "{" or ","), appended to acc;
\* ok only when the object closes at the last byte of s
RECURSIVE JsonMembers(_, _, _)
JsonMembers(s, p, acc) ==
  IF p > Len(s) \/ s[p] # 34 THEN [ok |-> FALSE, members |-> << >>]
  ELSE LET q == QuoteEnd(s, p + 1)
       IN  IF q = 0 \/ q + 1 > Len(s) \/ s[q + 1] # 58
           THEN [ok |-> FALSE, members |-> << >>]
           ELSE LET v == JsonValue(s, q + 2)
                    m == [key |-> SubSeq(s, p + 1, q - 1), val |-> v]
                IN  IF ~v.ok \/ v.next > Len(s)
                    THEN [ok |-> FALSE, members |-> << >>]
                    ELSE IF s[v.next] = 125
                      THEN [ok |-> v.next = Len(s), members |-> Append(acc, m)]
                    ELSE IF s[v.next] = 44
                      THEN JsonMembers(s, v.next + 1, Append(acc, m))
                    ELSE [ok |-> FALSE, members |-> << >>]

JsonObject(s) ==
  IF Len(s) < 2 \/ s[1] # 123 THEN [ok |-> FALSE, members |-> << >>]
  ELSE IF s[2] = 125 THEN [ok |-> Len(s) = 2, members |-> << >>]
  ELSE JsonMembers(s, 2, << >>)

\* #[derive(Deserialize)] struct Config: a field given twice, or given with
\* a value of the wrong type (volume: outside u8), fails the whole record;
\* a missing field takes its default; other keys are ignored.
Config_deserialize(members) ==
  LET at(k)    == {i \in 1..Len(members) : members[i].key = k}
      one(k)   == Cardinality(at(k)) <= 1
      has(k)   == at(k) # {}
      val(k)   == members[CHOOSE i \in at(k) : TRUE].val
      kindOk(k, kinds) == has(k) => val(k).kind \in kinds
      wellTyped ==
        /\ \A k \in {ConfigFields.fullscreen, ConfigFields.filtering, ConfigFields.joystick, ConfigFields.border,
                     ConfigFields.cheats_enabled, ConfigFields.volume} : one(k)
        /\ kindOk(ConfigFields.fullscreen, {"bool"})
        /\ kindOk(ConfigFields.filtering, {"str", "null"})
        /\ kindOk(ConfigFields.joystick, {"str"})
        /\ kindOk(ConfigFields.border, {"str"})
        /\ kindOk(ConfigFields.cheats_enabled, {"bool"})
        /\ kindOk(ConfigFields.volume, {"num"})
        /\ (has(ConfigFields.volume) => val(ConfigFields.volume).n <= 255)
  IN  IF ~wellTyped THEN [some |-> FALSE, v |-> ConfigDefault]
      ELSE [ some |-> TRUE,
             v |-> [ fullscreen |->
                       IF has(ConfigFields.fullscreen) THEN val(ConfigFields.fullscreen).b
                       ELSE default_fullscreen,
                     filtering |->
                       IF has(ConfigFields.filtering) /\ val(ConfigFields.filtering).kind = "str"
                       THEN SomeString(val(ConfigFields.filtering).s) ELSE NoString,
                     joystick |->
                       IF has(ConfigFields.joystick) THEN val(ConfigFields.joystick).s
                       ELSE default_joystick,
                     border |->
                       IF has(ConfigFields.border) THEN val(ConfigFields.border).s
                       ELSE default_border,
                     cheats_enabled |->
                       IF has(ConfigFields.cheats_enabled) THEN val(ConfigFields.cheats_enabled).b
                       ELSE default_cheats,
                     volume |->
                       IF has(ConfigFields.volume) THEN val(ConfigFields.volume).n
                       ELSE default_volume ] ]

NoConfig == [some |-> FALSE, v |-> ConfigDefault]

\* serde_json::from_slice::<Config>(bytes): Some(config) or None
from_slice_Config(bytes) ==
  LET o == JsonObject(bytes)
  IN  IF o.ok THEN Config_deserialize(o.members) ELSE NoConfig

\* ------------------------------------------------------------------------
\* The footer (struct Footer, repr(C): 4 + 4*4 bytes, no padding)
\* ------------------------------------------------------------------------

FOOTER_MAGIC == << 90, 88, 78, 68 >>   \* b"ZXND"
FOOTER_SIZE  == 20                     \* mem::size_of::<Footer>()

\* Footer::new
Footer_new(snapshot_size, shader_size, pokes_size, config_size) ==
  [ magic         |-> FOOTER_MAGIC,
    snapshot_size |-> snapshot_size,
    shader_size   |-> shader_size,
    pokes_size    |-> pokes_size,
    config_size   |-> config_size ]

Footer_as_bytes_swapped(footer) ==
  footer.magic \o LE32(footer.snapshot_size) \o LE32(footer.pokes_size)
               \o LE32(footer.shader_size) \o LE32(footer.config_size)
\* Footer::as_bytes: the struct's bytes in field order
Footer_as_bytes(footer) ==
  footer.magic \o LE32(footer.snapshot_size) \o LE32(footer.shader_size)
               \o LE32(footer.pokes_size) \o LE32(footer.config_size)

\* mem::transmute::<[u8; 20], Footer>
Footer_transmute(buf) ==
  [ magic         |-> SubSeq(buf, 1, 4),
    snapshot_size |-> FromLE32(buf, 4),
    shader_size   |-> FromLE32(buf, 8),
    pokes_size    |-> FromLE32(buf, 12),
    config_size   |-> FromLE32(buf, 16) ]

\* Option<Vec<u8>> / Option<String>
None == [some |-> FALSE, data |-> << >>]
Some(x) == [some |-> TRUE, data |-> x]
OptLen(o) == IF o.some THEN Len(o.data) ELSE 0

\* ------------------------------------------------------------------------
\* Files of the model
\* ------------------------------------------------------------------------

\* a path that names a file with this content
File(data) == [st |-> "file", data |-> data]
\* a path that names nothing: File::open fails
Missing == [st |-> "missing", data |-> << >>]
\* no path given and none found by the auto-search
NoPath == [st |-> "none", data |-> << >>]

MaxLen == 2

\* byte strings over alphabet of length 1..n
RECURSIVE SeqsUpTo(_, _)
SeqsUpTo(alphabet, n) ==
  IF n = 0 THEN {}
  ELSE LET shorter == SeqsUpTo(alphabet, n - 1)
       IN  {<< b >> : b \in alphabet} \cup shorter
             \cup {Append(x, b) : x \in shorter, b \in alphabet}

SnapshotBytes == SeqsUpTo({65, 237}, MaxLen)

\* runner templates: empty, shorter than a footer, and longer than one
RunnerImages == { << >>, << 127, 69, 76 >>, Fill(FOOTER_SIZE + MaxLen, 1) }

\* "v" ; a byte that is not UTF-8
ShaderTexts == { << 118 >>, << 255 >> }
\* "M" ; a lone continuation byte
PokesTexts == { << 77 >>, << 128 >> }
\* {} ; {"volume":7} ; {"volume":300} (not a u8) ; { (not JSON)
ConfigTexts ==
  { << 123, 125 >>,
    << 123, 34 >> \o ConfigFields.volume \o << 34, 58, 55, 125 >>,
    << 123, 34 >> \o ConfigFields.volume \o << 34, 58, 51, 48, 48, 125 >>,
    << 123 >> }

\* ------------------------------------------------------------------------
\* RLE codec: decompress_z80_block(input, output)
\* A run of the function is the record st: the two buffers and the loop
\* variables i and j.
\* ------------------------------------------------------------------------

RleStart(input, output) == [input |-> input, output |-> output, i |-> 0, j |-> 0]

\* while i < input.len() && j < output.len()
RleCond(st) == st.i < Len(st.input) /\ st.j < Len(st.output)

RleIsMarker_strict(st) ==
  /\ st.i + 4 < Len(st.input)
  /\ st.input[st.i + 1] = 237
  /\ st.input[st.i + 2] = 237
\* i + 4 <= input.len() && input[i] == 0xED && input[i+1] == 0xED
RleIsMarker(st) ==
  /\ st.i + 4 <= Len(st.input)
  /\ st.input[st.i + 1] = 237
  /\ st.input[st.i + 2] = 237

\* output with n copies of v written from 0-based position j on
WriteRun(output, j, n, v) ==
  SubSeq(output, 1, j) \o Fill(n, v) \o SubSeq(output, j + n + 1, Len(output))

\* the marker branch: count = input[i+2], val = input[i+3], i += 4, and
\* for _ in 0..count { if j < output.len() { output[j] = val; j += 1 } }
RleMarker(st) ==
  LET count == st.input[st.i + 3]
      val   == st.input[st.i + 4]
      n     == IF count <= Len(st.output) - st.j THEN count
               ELSE Len(st.output) - st.j
  IN  [st EXCEPT !.i = st.i + 4,
                 !.j = st.j + n,
                 !.output = WriteRun(st.output, st.j, n, val)]

\* the other branch: output[j] = input[i]; j += 1; i += 1
RleCopy(st) ==
  [st EXCEPT !.i = st.i + 1,
             !.j = st.j + 1,
             !.output[st.j + 1] = st.input[st.i + 1]]

\* one iteration of the loop body
RleIter(st) == IF RleIsMarker(st) THEN RleMarker(st) ELSE RleCopy(st)

RECURSIVE RleRun(_)
RleRun(st) == IF RleCond(st) THEN RleRun(RleIter(st)) ELSE st

\* the buffer output after decompress_z80_block(input, &mut output)
decompress_z80_block(input, output) == RleRun(RleStart(input, output)).output


\* ------------------------------------------------------------------------
\* z80_loader.rs: convert_z80_to_sna(z80_data)
\* A conversion returns st = "ok" with the canonical buffer and the machine,
\* st = "err" for Err(..), st = "panic" for a panic.
\* ------------------------------------------------------------------------

\* the size of a RAM page, and of the 48K RAM
PAGE  == 16384
RAM48 == 49152

\* s[k] of Rust (0-based)
at(s, k) == s[k + 1]

ConvOk(sna, machine) == [st |-> "ok", sna |-> sna, machine |-> machine]
ConvErr   == [st |-> "err", sna |-> << >>, machine |-> "none"]
ConvPanic == [st |-> "panic", sna |-> << >>, machine |-> "none"]

\* the 30-byte base header (z80_data.len() >= 30)
Z80Header(z) ==
  LET byte12 == at(z, 12)
      byte29 == at(z, 29)
  IN  [ a |-> at(z, 0), f |-> at(z, 1), c |-> at(z, 2), b |-> at(z, 3),
        l |-> at(z, 4), h |-> at(z, 5),
        pc |-> FromLE16(at(z, 6), at(z, 7)),
        sp |-> FromLE16(at(z, 8), at(z, 9)),
        i |-> at(z, 10),
        byte12 |-> byte12,
        border |-> (byte12 \div 2) % 8,
        r_full |-> (at(z, 11) % 128) + 128 * (byte12 % 2),
        e |-> at(z, 13), d |-> at(z, 14),
        c_alt |-> at(z, 15), b_alt |-> at(z, 16),
        e_alt |-> at(z, 17), d_alt |-> at(z, 18),
        l_alt |-> at(z, 19), h_alt |-> at(z, 20),
        a_alt |-> at(z, 21), f_alt |-> at(z, 22),
        iy_low |-> at(z, 23), iy_high |-> at(z, 24),
        ix_low |-> at(z, 25), ix_high |-> at(z, 26),
        iff2 |-> at(z, 28),
        im |-> byte29 % 4 ]

\* Z80Machine with the range 3..12
Z80Machine_twelve(hardware_mode) ==
  IF hardware_mode \in {0, 1} THEN "48K"
  ELSE IF hardware_mode \in 3..12 THEN "128K"
  ELSE "48K"

\* match hardware_mode { 0 | 1 => 48K, 3..=13 => 128K, _ => 48K }
Z80Machine(hardware_mode) ==
  IF hardware_mode \in {0, 1} THEN "48K"
  ELSE IF hardware_mode \in 3..13 THEN "128K"
  ELSE "48K"

Z80ExtErr ==
  [ok |-> FALSE, version |-> 0, pc_real |-> 0, hardware_mode |-> 0,
   port_7ffd |-> 0, machine |-> "none", pos |-> 0]

\* Z80Ext with the rest of the header not read: the skip loop left out
Z80Ext_no_skip(z, hd) ==
  IF hd.pc # 0
    THEN [ok |-> TRUE, version |-> 1, pc_real |-> hd.pc, hardware_mode |-> 0,
          port_7ffd |-> 0, machine |-> "48K", pos |-> 30]
  ELSE IF Len(z) < 34 THEN Z80ExtErr
  ELSE
    LET header_len == FromLE16(at(z, 30), at(z, 31))
        fixed      == 34 + (IF header_len >= 3 THEN 1 ELSE 0)
                         + (IF header_len >= 4 THEN 1 ELSE 0)
    IN  IF Len(z) < fixed THEN Z80ExtErr
        ELSE [ok |-> TRUE,
              version |-> IF header_len = 23 THEN 2
                          ELSE IF header_len \in {54, 55} THEN 3 ELSE 1,
              pc_real |-> FromLE16(at(z, 32), at(z, 33)),
              hardware_mode |-> IF header_len >= 3 THEN at(z, 34) ELSE 0,
              port_7ffd |-> IF header_len >= 4 THEN at(z, 35) ELSE 0,
              machine |-> IF header_len >= 3 THEN Z80Machine(at(z, 34)) ELSE "48K",
              pos |-> fixed]

\* the locals after the "Check for v2/v3" block; pos is cursor.position().
\* A read_u8 behind the end of the input is the Err of the ? operator.
Z80Ext(z, hd) ==
  IF hd.pc # 0
    THEN [ok |-> TRUE, version |-> 1, pc_real |-> hd.pc, hardware_mode |-> 0,
          port_7ffd |-> 0, machine |-> "48K", pos |-> 30]
  ELSE IF Len(z) < 34 THEN Z80ExtErr
  ELSE
    LET header_len == FromLE16(at(z, 30), at(z, 31))
        consumed   == IF header_len >= 4 THEN 4
                      ELSE IF header_len >= 3 THEN 3
                      ELSE IF header_len >= 2 THEN 2 ELSE 0
        skip       == IF header_len >= consumed THEN header_len - consumed ELSE 0
        fixed      == 34 + (IF header_len >= 3 THEN 1 ELSE 0)
                         + (IF header_len >= 4 THEN 1 ELSE 0)
    IN  IF Len(z) < fixed + skip THEN Z80ExtErr
        ELSE [ok |-> TRUE,
              version |-> IF header_len = 23 THEN 2
                          ELSE IF header_len \in {54, 55} THEN 3 ELSE 1,
              pc_real |-> FromLE16(at(z, 32), at(z, 33)),
              hardware_mode |-> IF header_len >= 3 THEN at(z, 34) ELSE 0,
              port_7ffd |-> IF header_len >= 4 THEN at(z, 35) ELSE 0,
              machine |-> IF header_len >= 3 THEN Z80Machine(at(z, 34)) ELSE "48K",
              pos |-> fixed + skip]

\* vec![vec![0u8; 16384]; 8]
ZeroBanks == [p \in 0..7 |-> Fill(PAGE, 0)]

\* the version 1 body: one block for the 48K RAM, mapped to banks 5, 2, 0
Z80BodyV1(z, hd, ex) ==
  LET data_rem   == Slice(z, ex.pos, Len(z))
      compressed == (hd.byte12 \div 32) % 2 = 1
      zero       == Fill(RAM48, 0)
      len        == IF Len(data_rem) <= RAM48 THEN Len(data_rem) ELSE RAM48
      ram_48k    == IF compressed
                      THEN decompress_z80_block(data_rem, zero)
                      ELSE Slice(data_rem, 0, len) \o Slice(zero, len, RAM48)
  IN  [ZeroBanks EXCEPT ![5] = Slice(ram_48k, 0, PAGE),
                        ![2] = Slice(ram_48k, PAGE, 2 * PAGE),
                        ![0] = Slice(ram_48k, 2 * PAGE, RAM48)]

\* the bank a block's page identifier names, -1 for `continue`
Z80BankIdx(ex, page) ==
  IF ex.hardware_mode <= 1
    THEN (IF page = 8 THEN 5 ELSE IF page = 4 THEN 2 ELSE IF page = 5 THEN 0 ELSE -1)
    ELSE (IF page \in 3..10 THEN page - 3 ELSE -1)

\* the version 2/3 body: the while loop over the blocks from pos on
RECURSIVE Z80Blocks(_, _, _, _)
Z80Blocks(z, ex, pos, banks) ==
  IF ~(pos < Len(z)) THEN [ok |-> TRUE, banks |-> banks]
  ELSE IF Len(z) - pos < 3 THEN [ok |-> FALSE, banks |-> banks]
  ELSE
    LET block_len  == FromLE16(at(z, pos), at(z, pos + 1))
        page       == at(z, pos + 2)
        data_start == pos + 3
        data_end   == IF block_len = 65535 THEN data_start + PAGE
                      ELSE data_start + block_len
        bank_idx   == Z80BankIdx(ex, page)
    IN  IF data_end > Len(z) THEN [ok |-> TRUE, banks |-> banks]
        ELSE IF bank_idx = -1 THEN Z80Blocks(z, ex, data_end, banks)
        ELSE LET chunk == Slice(z, data_start, data_end)
             IN  Z80Blocks(z, ex, data_end,
                   [banks EXCEPT ![bank_idx] =
                      IF block_len = 65535 THEN chunk
                      ELSE decompress_z80_block(chunk, banks[bank_idx])])

Z80Body(z, hd, ex) ==
  IF ex.version = 1 THEN [ok |-> TRUE, banks |-> Z80BodyV1(z, hd, ex)]
  ELSE Z80Blocks(z, ex, ex.pos, ZeroBanks)

\* the 27 pushes of "Build SNA"
Z80SnaHeader(hd) ==
  << hd.i, hd.l_alt, hd.h_alt, hd.e_alt, hd.d_alt, hd.c_alt, hd.b_alt,
     hd.f_alt, hd.a_alt, hd.l, hd.h, hd.e, hd.d, hd.c, hd.b,
     hd.iy_low, hd.iy_high, hd.ix_low, hd.ix_high,
     ((hd.iff2 \div 4) % 2) + 2,
     hd.r_full, hd.f, hd.a, hd.sp % 256, hd.sp \div 256, hd.im, hd.border >>

\* x.wrapping_sub(2) on a u16
WrappingSub2(x) == (x + U16 - 2) % U16

Z80Sna48_no_push(hd, ex, banks) ==
  LET sna    == Z80SnaHeader(hd) \o banks[5] \o banks[2] \o banks[0]
      new_sp == WrappingSub2(hd.sp)
  IN  [sna EXCEPT ![24] = new_sp % 256, ![25] = new_sp \div 256]
\* machine == Sinclair48K: banks 5, 2, 0, the SP field lowered by 2 and the
\* PC written at the new SP when both bytes fall inside the buffer
Z80Sna48(hd, ex, banks) ==
  LET sna    == Z80SnaHeader(hd) \o banks[5] \o banks[2] \o banks[0]
      new_sp == WrappingSub2(hd.sp)
      sna_sp == [sna EXCEPT ![24] = new_sp % 256, ![25] = new_sp \div 256]
      offset == 27 + (new_sp - PAGE)
  IN  IF new_sp >= PAGE /\ offset + 1 < Len(sna)
        THEN [sna_sp EXCEPT ![offset + 1] = ex.pc_real % 256,
                            ![offset + 2] = ex.pc_real \div 256]
        ELSE sna_sp

\* for (i, bank) in banks.iter().enumerate().take(8), from bank i on:
\* the banks other than 5, 2 and current_bank
RECURSIVE Z80Remaining_all(_, _, _)
Z80Remaining_all(banks, current_bank, i) ==
  IF i > 7 THEN << >>
  ELSE (IF i # 5 /\ i # 2 THEN banks[i] ELSE << >>)
       \o Z80Remaining_all(banks, current_bank, i + 1)
RECURSIVE Z80Remaining(_, _, _)
Z80Remaining(banks, current_bank, i) ==
  IF i > 7 THEN << >>
  ELSE (IF i # 5 /\ i # 2 /\ i # current_bank THEN banks[i] ELSE << >>)
       \o Z80Remaining(banks, current_bank, i + 1)

\* the 128K branch
Z80Sna128(hd, ex, banks) ==
  LET current_bank == ex.port_7ffd % 8
  IN  Z80SnaHeader(hd) \o banks[5] \o banks[2] \o banks[current_bank]
        \o << ex.pc_real % 256, ex.pc_real \div 256, ex.port_7ffd, 0 >>
        \o Z80Remaining(banks, current_bank, 0)

convert_z80_to_sna(z) ==
  IF Len(z) < 30 THEN ConvErr
  ELSE
    LET hd == Z80Header(z)
        ex == Z80Ext(z, hd)
    IN  IF ~ex.ok THEN ConvErr
        ELSE LET body == Z80Body(z, hd, ex)
             IN  IF ~body.ok THEN ConvErr
                 ELSE IF ex.machine = "48K"
                   THEN ConvOk(Z80Sna48(hd, ex, body.banks), "48K")
                   ELSE ConvOk(Z80Sna128(hd, ex, body.banks), "128K")

\* ------------------------------------------------------------------------
\* szx_loader.rs: convert_szx_to_sna(szx_data)
\* ------------------------------------------------------------------------

SZX_SIGNATURE == << 90, 88, 83, 84 >>      \* "ZXST"
TAG_Z80R == << 90, 56, 48, 82 >>           \* "Z80R"
TAG_RAMP == << 82, 65, 77, 80 >>           \* "RAMP"
TAG_SPCR == << 83, 80, 67, 82 >>           \* "SPCR"

\* regs.len()
REGS_LEN == 37

\* stands for every chunk length of 2^30 or more: longer than every file of
\* the model, and a value the 32-bit integers of TLC hold
HugeSize == 1073741824

\* cursor.read_u32::<LE>() at the 0-based offset p
ReadU32(z, p) == IF at(z, p + 3) >= 64 THEN HugeSize ELSE FromLE32(z, p)

\* the decoder's locals before the chunk loop
SzxStart ==
  [st |-> "ok", regs |-> Fill(REGS_LEN, 0), ram_pages |-> << >>,
   border |-> 0, port_7ffd |-> 0]

SzxFail(loc, how) == [loc EXCEPT !.st = how]

\* ram_pages.insert(page_no, page_data)
Insert(ram_pages, page_no, page_data) ==
  [q \in DOMAIN ram_pages \cup {page_no} |->
     IF q = page_no THEN page_data ELSE ram_pages[q]]

\* b"Z80R": read min(size, 37) bytes into the front of regs
SzxZ80R(z, loc, pos_before, size) ==
  LET read_size == IF size <= REGS_LEN THEN size ELSE REGS_LEN
  IN  IF Len(z) - pos_before < read_size THEN SzxFail(loc, "err")
      ELSE [loc EXCEPT !.regs = Slice(z, pos_before, pos_before + read_size)
                                  \o Slice(loc.regs, read_size, REGS_LEN)]

\* SzxRAMP with the page inserted whatever its length
SzxRAMP_any_length(z, loc, pos_before, size, overflow_checks) ==
  IF Len(z) - pos_before < 3 THEN SzxFail(loc, "err")
  ELSE IF size < 3
    THEN SzxFail(loc, IF overflow_checks THEN "panic" ELSE "err")
  ELSE
    LET flags     == FromLE16(at(z, pos_before), at(z, pos_before + 1))
        page_no   == at(z, pos_before + 2)
        data_size == size - 3
        start     == pos_before + 3
    IN  IF Len(z) - start < data_size THEN SzxFail(loc, "err")
        ELSE
          LET compressed_data == Slice(z, start, start + data_size)
              inflated  == IF flags % 2 = 1 THEN decompress_data(compressed_data)
                           ELSE ZlibOk(compressed_data)
          IN  IF ~inflated.ok THEN SzxFail(loc, "err")
              ELSE [loc EXCEPT !.ram_pages = Insert(loc.ram_pages, page_no, inflated.data)]

\* b"RAMP": flags, page number, size - 3 bytes of data, inflated when
\* flags bit 0 is set, inserted when 16384 bytes long. size - 3 on the u32
\* size below 3 panics in a build with overflow checks; without them it
\* wraps to a length no input has and read_exact fails.
SzxRAMP(z, loc, pos_before, size, overflow_checks) ==
  IF Len(z) - pos_before < 3 THEN SzxFail(loc, "err")
  ELSE IF size < 3
    THEN SzxFail(loc, IF overflow_checks THEN "panic" ELSE "err")
  ELSE
    LET flags     == FromLE16(at(z, pos_before), at(z, pos_before + 1))
        page_no   == at(z, pos_before + 2)
        data_size == size - 3
        start     == pos_before + 3
    IN  IF Len(z) - start < data_size THEN SzxFail(loc, "err")
        ELSE
          LET compressed_data == Slice(z, start, start + data_size)
              inflated  == IF flags % 2 = 1 THEN decompress_data(compressed_data)
                           ELSE ZlibOk(compressed_data)
          IN  IF ~inflated.ok THEN SzxFail(loc, "err")
              ELSE IF Len(inflated.data) = PAGE
                THEN [loc EXCEPT !.ram_pages = Insert(loc.ram_pages, page_no, inflated.data)]
              ELSE loc

\* b"SPCR": border, then the paging port
SzxSPCR(z, loc, pos_before) ==
  IF Len(z) - pos_before < 2 THEN SzxFail(loc, "err")
  ELSE [loc EXCEPT !.border = at(z, pos_before),
                   !.port_7ffd = at(z, pos_before + 1)]

\* match &tag
SzxChunk(z, loc, tag, pos_before, size, overflow_checks) ==
  IF tag = TAG_Z80R THEN SzxZ80R(z, loc, pos_before, size)
  ELSE IF tag = TAG_RAMP THEN SzxRAMP(z, loc, pos_before, size, overflow_checks)
  ELSE IF tag = TAG_SPCR THEN SzxSPCR(z, loc, pos_before)
  ELSE loc

\* SzxChunks with the next header read behind the bytes the register
\* chunk's handler consumed
RECURSIVE SzxChunks_consumed(_, _, _, _)
SzxChunks_consumed(z, loc, pos, overflow_checks) ==
  IF ~(pos < Len(z)) THEN loc
  ELSE IF Len(z) - pos < 4 THEN loc
  ELSE IF Len(z) - pos < 8 THEN SzxFail(loc, "err")
  ELSE
    LET tag        == Slice(z, pos, pos + 4)
        size       == ReadU32(z, pos + 4)
        pos_before == pos + 8
        after      == SzxChunk(z, loc, tag, pos_before, size, overflow_checks)
    IN  IF after.st # "ok" THEN after
        ELSE SzxChunks_consumed(z, after,
               pos_before + (IF tag = TAG_Z80R /\ size > REGS_LEN THEN REGS_LEN ELSE size),
               overflow_checks)

\* while cursor.position() < total_len, from position pos on
RECURSIVE SzxChunks(_, _, _, _)
SzxChunks(z, loc, pos, overflow_checks) ==
  IF ~(pos < Len(z)) THEN loc
  ELSE IF Len(z) - pos < 4 THEN loc
  ELSE IF Len(z) - pos < 8 THEN SzxFail(loc, "err")
  ELSE
    LET tag        == Slice(z, pos, pos + 4)
        size       == ReadU32(z, pos + 4)
        pos_before == pos + 8
        after      == SzxChunk(z, loc, tag, pos_before, size, overflow_checks)
    IN  IF after.st # "ok" THEN after
        ELSE SzxChunks(z, after, pos_before + size, overflow_checks)

\* the 27 pushes of either branch (the 48K branch pushes sp_low, sp_high,
\* which are regs[0x14], regs[0x15])
SzxSnaHeader_ix_first(loc) ==
  LET regs == loc.regs
  IN  << at(regs, 24), at(regs, 14), at(regs, 15), at(regs, 12), at(regs, 13),
         at(regs, 10), at(regs, 11), at(regs, 8), at(regs, 9),
         at(regs, 6), at(regs, 7), at(regs, 4), at(regs, 5),
         at(regs, 2), at(regs, 3), at(regs, 16), at(regs, 17),
         at(regs, 18), at(regs, 19),
         (IF at(regs, 27) # 0 THEN 4 ELSE 0) + 2,
         at(regs, 25), at(regs, 0), at(regs, 1), at(regs, 20), at(regs, 21),
         at(regs, 28), loc.border % 8 >>
SzxSnaHeader(loc) ==
  LET regs == loc.regs
  IN  << at(regs, 24), at(regs, 14), at(regs, 15), at(regs, 12), at(regs, 13),
         at(regs, 10), at(regs, 11), at(regs, 8), at(regs, 9),
         at(regs, 6), at(regs, 7), at(regs, 4), at(regs, 5),
         at(regs, 2), at(regs, 3), at(regs, 18), at(regs, 19),
         at(regs, 16), at(regs, 17),
         (IF at(regs, 27) # 0 THEN 4 ELSE 0) + 2,
         at(regs, 25), at(regs, 0), at(regs, 1), at(regs, 20), at(regs, 21),
         at(regs, 28), loc.border % 8 >>

\* ram_pages.get(&p) is Some
HasPage(loc, p) == p \in DOMAIN loc.ram_pages

\* !is_128k: pages 5, 2, 0 are required; the PC is pushed into ram
SzxSna48(loc) ==
  IF ~(HasPage(loc, 5) /\ HasPage(loc, 2) /\ HasPage(loc, 0)) THEN ConvErr
  ELSE
    LET regs     == loc.regs
        pc_low   == at(regs, 22)
        pc_high  == at(regs, 23)
        sp_val   == FromLE16(at(regs, 20), at(regs, 21))
        new_sp   == WrappingSub2(sp_val)
        sna      == [SzxSnaHeader(loc) EXCEPT ![24] = new_sp % 256,
                                              ![25] = new_sp \div 256]
        ram      == loc.ram_pages[5] \o loc.ram_pages[2] \o loc.ram_pages[0]
        ram_offset == new_sp - PAGE
        pushed   == IF new_sp >= PAGE /\ ram_offset + 1 < Len(ram)
                      THEN [ram EXCEPT ![ram_offset + 1] = pc_low,
                                       ![ram_offset + 2] = pc_high]
                      ELSE ram
    IN  ConvOk(sna \o pushed, "48K")

\* for i in 0..8, from page i on: Err on the first page that is missing
RECURSIVE SzxRemaining(_, _, _)
SzxRemaining(loc, page_n, i) ==
  IF i > 7 THEN [ok |-> TRUE, data |-> << >>]
  ELSE IF i = 5 \/ i = 2 \/ i = page_n THEN SzxRemaining(loc, page_n, i + 1)
  ELSE IF ~HasPage(loc, i) THEN [ok |-> FALSE, data |-> << >>]
  ELSE LET rest == SzxRemaining(loc, page_n, i + 1)
       IN  [ok |-> rest.ok, data |-> loc.ram_pages[i] \o rest.data]

\* is_128k: pages 5, 2, the page at 0xC000, the extension header, the rest
SzxSna128(loc) ==
  LET regs   == loc.regs
      page_n == loc.port_7ffd % 8
  IN  IF ~(HasPage(loc, 5) /\ HasPage(loc, 2) /\ HasPage(loc, page_n)) THEN ConvErr
      ELSE LET rest == SzxRemaining(loc, page_n, 0)
           IN  IF ~rest.ok THEN ConvErr
               ELSE ConvOk(SzxSnaHeader(loc)
                             \o loc.ram_pages[5] \o loc.ram_pages[2]
                             \o loc.ram_pages[page_n]
                             \o << at(regs, 22), at(regs, 23), loc.port_7ffd, 0 >>
                             \o rest.data,
                           "128K")

\* SzxMachine with the identifier 7 taken as a 128K machine
SzxMachine_seven(machine_id) ==
  IF machine_id \in {1, 2} THEN "48K"
  ELSE IF machine_id \in 3..7 THEN "128K"
  ELSE "none"

\* match machine_id { 1 | 2 => 48K, 3..=6 => 128K, _ => Err }
SzxMachine(machine_id) ==
  IF machine_id \in {1, 2} THEN "48K"
  ELSE IF machine_id \in 3..6 THEN "128K"
  ELSE "none"

convert_szx_to_sna(z, overflow_checks) ==
  IF Len(z) < 4 THEN ConvErr
  ELSE IF Slice(z, 0, 4) # SZX_SIGNATURE THEN ConvErr
  ELSE IF Len(z) < 8 THEN ConvErr
  ELSE IF SzxMachine(at(z, 6)) = "none" THEN ConvErr
  ELSE
    LET loc == SzxChunks(z, SzxStart, 8, overflow_checks)
    IN  IF loc.st = "panic" THEN ConvPanic
        ELSE IF loc.st = "err" THEN ConvErr
        ELSE IF SzxMachine(at(z, 6)) = "48K" THEN SzxSna48(loc)
        ELSE SzxSna128(loc)

\* ------------------------------------------------------------------------
\* Snapshot files for the two converters. A file is kept by its segments
\* (a literal byte string, then n copies of v), a converted buffer by its
\* length and its non-zero bytes, so that a state stays small; the
\* converters work on the byte sequences themselves.
\* ------------------------------------------------------------------------

Seg(lit, n, v) == [lit |-> lit, n |-> n, v |-> v]
Lit(lit) == Seg(lit, 0, 0)

\* the bytes of a file
RECURSIVE Bytes(_)
Bytes(file) ==
  IF file = << >> THEN << >>
  ELSE Head(file).lit \o Fill(Head(file).n, Head(file).v) \o Bytes(Tail(file))

\* a buffer by its length and the set of << position, byte >> of its
\* non-zero bytes (positions from 1)
Sparse(s) ==
  [len |-> Len(s),
   nz  |-> { << k, s[k] >> : k \in { k \in 1..Len(s) : s[k] # 0 } }]

\* What a snapshot holds: the registers, the border colour, the value of the
\* paging port, and RAM pages 0..7. A full page p holds 16+p three times,
\* 200+p, zeros, and 100+p as its last byte; a page may also hold only the
\* first four of these, or zeros. The register values are pairwise different
\* where the order of the output fields is to be told apart.
PageHead(p) == << 16 + p, 16 + p, 16 + p, 200 + p >>
PageLast(p) == 100 + p
PageZeros   == PAGE - 5

PageFile(p) == << Seg(PageHead(p), PageZeros, 0), Lit(<< PageLast(p) >>) >>

\* the same page in the RLE coding: a group for the first three bytes, 64
\* groups of 255 zeros and one of 59, the other two bytes as they are
RECURSIVE Repeat(_, _)
Repeat(s, n) == IF n = 0 THEN << >> ELSE s \o Repeat(s, n - 1)
PageRleHead(p) == << 237, 237, 3, 16 + p, 200 + p >>
PageRle(p) ==
  PageRleHead(p)
    \o Repeat(<< 237, 237, 255, 0 >>, PageZeros \div 255)
    \o << 237, 237, PageZeros % 255, 0 >>
    \o << PageLast(p) >>

Regs(sp) ==
  [ a |-> 1, f |-> 2, b |-> 3, c |-> 4, d |-> 5, e |-> 6, h |-> 7, l |-> 8,
    a_alt |-> 9, f_alt |-> 10, b_alt |-> 11, c_alt |-> 12,
    d_alt |-> 13, e_alt |-> 14, h_alt |-> 15, l_alt |-> 16,
    ix_low |-> 17, ix_high |-> 18, iy_low |-> 19, iy_high |-> 20,
    i |-> 21, r |-> 150, iff1 |-> 1, iff2 |-> 1, im |-> 1,
    sp |-> sp, pc |-> 33059, border |-> 5 ]

\* ---- Format A (.z80) files ----------------------------------------------

\* the 30-byte base header; pc is 0 when an extended header follows
Z80BaseFile(rg, pc, compressed) ==
  << rg.a, rg.f, rg.c, rg.b, rg.l, rg.h, pc % 256, pc \div 256,
     rg.sp % 256, rg.sp \div 256, rg.i, rg.r % 128,
     (rg.r \div 128) + 2 * rg.border + (IF compressed THEN 32 ELSE 0),
     rg.e, rg.d, rg.c_alt, rg.b_alt, rg.e_alt, rg.d_alt, rg.l_alt, rg.h_alt,
     rg.a_alt, rg.f_alt, rg.iy_low, rg.iy_high, rg.ix_low, rg.ix_high,
     rg.iff1, rg.iff2, rg.im >>

\* version 1: the header and one block for pages 5, 2, 0; the compressed
\* block ends behind the first bytes of page 2
Z80FileV1(rg, compressed) ==
  << Lit(Z80BaseFile(rg, rg.pc, compressed)) >>
    \o (IF compressed THEN << Lit(PageRle(5) \o PageRleHead(2)) >>
        ELSE PageFile(5) \o PageFile(2) \o PageFile(0))

\* the page identifier of a bank
Z80PageId(machine, bank) ==
  IF machine = "128K" THEN bank + 3
  ELSE IF bank = 5 THEN 8 ELSE IF bank = 2 THEN 4 ELSE 5

Z80Block(machine, bank, compressed) ==
  IF compressed
    THEN << Lit(LE16(Len(PageRle(bank))) \o << Z80PageId(machine, bank) >>
                  \o PageRle(bank)) >>
    ELSE << Lit(<< 255, 255, Z80PageId(machine, bank) >>) >> \o PageFile(bank)

RECURSIVE Z80BlocksFile(_, _, _)
Z80BlocksFile(machine, banks, compressed) ==
  IF banks = << >> THEN << >>
  ELSE Z80Block(machine, Head(banks), compressed)
         \o Z80BlocksFile(machine, Tail(banks), compressed)

\* version 2 or 3: the base header with PC 0, the extended header of
\* header_len bytes (PC, hardware mode, paging port, zeros), a block a bank
Z80FileV23(rg, header_len, hardware_mode, port, compressed) ==
  LET machine == IF hardware_mode \in 3..13 THEN "128K" ELSE "48K"
      banks   == IF machine = "128K" THEN << 0, 1, 2, 3, 4, 5, 6, 7 >>
                 ELSE << 5, 2, 0 >>
  IN  << Seg(Z80BaseFile(rg, 0, FALSE) \o LE16(header_len)
               \o << rg.pc % 256, rg.pc \div 256, hardware_mode, port >>,
             header_len - 4, 0) >>
        \o Z80BlocksFile(machine, banks, compressed)

\* ---- Format B (.szx) files ----------------------------------------------

SzxChunkHead(tag, size) == tag \o LE32(size)

\* the register chunk: AF BC DE HL AF' BC' DE' HL' IX IY SP PC I R IFF1
\* IFF2 IM and 8 more bytes
SzxRegsChunk(rg) ==
  SzxChunkHead(TAG_Z80R, REGS_LEN) \o
  << rg.f, rg.a, rg.c, rg.b, rg.e, rg.d, rg.l, rg.h,
     rg.f_alt, rg.a_alt, rg.c_alt, rg.b_alt, rg.e_alt, rg.d_alt,
     rg.l_alt, rg.h_alt, rg.ix_low, rg.ix_high, rg.iy_low, rg.iy_high,
     rg.sp % 256, rg.sp \div 256, rg.pc % 256, rg.pc \div 256,
     rg.i, rg.r, rg.iff1, rg.iff2, rg.im, 0, 0, 0, 0, 0, 0, 0, 0 >>

\* the border and paging-port chunk (8 bytes)
SzxSpecChunk(rg, port) ==
  SzxChunkHead(TAG_SPCR, 8) \o << rg.border, port, 0, 0, 0, 0, 0, 0 >>

\* a chunk the decoder does not know ("CRTR")
SzxOtherChunk == SzxChunkHead(<< 67, 82, 84, 82 >>, 2) \o << 1, 2 >>

\* the zlib stream of a file, by segments: the 7 bytes in front of the
\* data, the data, the 4 bytes behind it
ZlibFile(file) ==
  LET stream == compress_data(Bytes(file))
  IN  << Lit(SubSeq(stream, 1, 7)) >> \o file
        \o << Lit(SubSeq(stream, Len(stream) - 3, Len(stream))) >>

\* a RAM-page chunk: flags, page number, the page or its zlib stream
SzxPageChunk(p, compressed) ==
  IF compressed
    THEN << Lit(SzxChunkHead(TAG_RAMP, 3 + PAGE + 11) \o << 1, 0, p >>) >>
           \o ZlibFile(PageFile(p))
    ELSE << Lit(SzxChunkHead(TAG_RAMP, 3 + PAGE) \o << 0, 0, p >>) >> \o PageFile(p)

RECURSIVE SzxPagesFile(_, _)
SzxPagesFile(pages, compressed) ==
  IF pages = << >> THEN << >>
  ELSE SzxPageChunk(Head(pages), compressed) \o SzxPagesFile(Tail(pages), compressed)

SzxFile(rg, machine_id, port, compressed) ==
  LET pages == IF machine_id \in 3..6 THEN << 0, 1, 2, 3, 4, 5, 6, 7 >>
               ELSE << 0, 2, 5 >>
  IN  << Lit(SZX_SIGNATURE \o << 1, 4, machine_id, 0 >> \o SzxOtherChunk
               \o SzxRegsChunk(rg) \o SzxSpecChunk(rg, port)) >>
        \o SzxPagesFile(pages, compressed)

\* ------------------------------------------------------------------------
\* State
\* ------------------------------------------------------------------------

VARIABLES
  fs_input,    \* the file args.input names (the snapshot)
  fs_runner,   \* the file args.runner names (the runner template)
  fs_shader,   \* the shader file the bundler resolves, if any
  fs_pokes,    \* the pokes file the bundler resolves, if any
  fs_config,   \* the config file the bundler resolves, if any
  out,         \* the file at output_path
  damaged,     \* the parts of the output file changed after bundling
  bundler,     \* zexe-bundler main: its position and locals
  runner,      \* zexe-runner main: its position and locals
  rle,         \* a call of decompress_z80_block: its position and locals
  app,         \* App::new of the runner: the snapshot and what is loaded
  held,        \* what the snapshot file given to App::new holds
  ui,          \* the App of the runner: its settings, pokes, volume, clock
  cur          \* a parser or decoder loop under way: its input and cursor

vars == << fs_input, fs_runner, fs_shader, fs_pokes, fs_config, out, damaged,
           bundler, runner, rle, app, held, ui, cur >>
inputs == << fs_input, fs_runner, fs_shader, fs_pokes, fs_config >>
containerVars == << inputs, out, damaged, bundler, runner >>
codecVars == << rle >>
appVars == << app, held >>
sessionVars == << ui, cur >>
loaderVars == << codecVars, appVars, sessionVars >>

NoOut == [exists |-> FALSE, data |-> << >>, exec |-> FALSE]
\* a file already at output_path before the bundler runs
OldOut == [exists |-> TRUE, data |-> << 111, 108, 100 >>, exec |-> FALSE]

NoPos == [runner |-> -1, snapshot |-> -1, shader |-> -1, pokes |-> -1,
          config |-> -1, footer |-> -1]

BundlerInit ==
  [ pc                  |-> "read_snapshot",
    result              |-> "running",
    snapshot_data       |-> << >>,
    runner_data         |-> << >>,
    shader_data         |-> << >>,
    pokes_data          |-> << >>,
    config_data         |-> << >>,
    compressed_snapshot |-> << >>,
    compressed_shader   |-> None,
    compressed_pokes    |-> None,
    compressed_config   |-> None,
    footer              |-> Footer_new(0, 0, 0, 0),
    pos                 |-> NoPos ]

\* loaded_data while it is still snapshot_data.to_vec()
Unconverted == [len |-> -1, nz |-> {}]

\* what a file holds: the format it is in, the registers, the paging port
Holds(format, rg, port, pages) ==
  [format |-> format, regs |-> rg, port |-> port, pages |-> pages]
AllPages(kind) == [p \in 0..7 |-> kind]
NoHeld == Holds("none", Regs(0), 0, AllPages("zero"))

\* App::new not called
AppIdle ==
  [pc |-> "idle", snapshot_data |-> << >>, overflow_checks |-> FALSE,
   result |-> "none", machine |-> "48K", loaded_data |-> Unconverted]

\* no call of decompress_z80_block under way
RleIdle == [pc |-> "idle", input |-> << >>, output |-> << >>, i |-> 0, j |-> 0]

\* no App
UiIdle ==
  [ pc |-> "idle", config_text |-> None,
    embedded_config |-> NoConfig, embedded_pokes |-> None,
    embedded_shader |-> FALSE, retro_shader |-> FALSE, pok_file |-> None,
    config_json |-> [st |-> "missing", volume |-> 0],
    is_fullscreen |-> TRUE, border_mode |-> "Full", filtering_mode |-> "Nearest",
    joystick_mode |-> "Off", pokes |-> << >>, pokes_enabled |-> FALSE,
    current_volume |-> 100, is_muted |-> FALSE, memory |-> << >>,
    osd_message |-> [text |-> "none", n |-> 0],
    is_full_speed |-> FALSE, last_frame_time |-> [era |-> 0, t |-> 0],
    now |-> [era |-> 0, t |-> 0], frames |-> 0 ]

\* no loop under way
CurIdle == [pc |-> "idle"]

SessionIdle == ui = UiIdle /\ cur = CurIdle

RunnerInit ==
  [ pc              |-> "idle",
    file            |-> << >>,
    snapshot_data   |-> << >>,
    embedded_shader |-> None,
    embedded_pokes  |-> None,
    embedded_config |-> NoConfig,
    off             |-> NoPos ]

Init ==
  /\ fs_input  \in {Missing, File(<< >>)} \cup {File(x) : x \in SnapshotBytes}
  /\ fs_runner \in {Missing} \cup {File(x) : x \in RunnerImages}
  /\ fs_shader \in {NoPath, Missing, File(<< >>)} \cup {File(x) : x \in ShaderTexts}
  /\ fs_pokes  \in {NoPath, Missing, File(<< >>)} \cup {File(x) : x \in PokesTexts}
  /\ fs_config \in {NoPath, Missing, File(<< >>)} \cup {File(x) : x \in ConfigTexts}
  /\ out \in {NoOut, OldOut}
  /\ damaged = {}
  /\ bundler = BundlerInit
  /\ runner = RunnerInit
  /\ rle = RleIdle
  /\ app = AppIdle
  /\ held = NoHeld
  /\ SessionIdle

\* ------------------------------------------------------------------------
\* zexe-bundler main, one action per I/O step
\* ------------------------------------------------------------------------

BundlerFail == [bundler EXCEPT !.pc = "done", !.result = "err"]

ReadSnapshot_create_first ==
  /\ bundler.pc = "read_snapshot"
  /\ out' = [exists |-> TRUE, data |-> << >>, exec |-> out.exec]
  /\ bundler' = IF fs_input.st = "file"
                THEN [bundler EXCEPT !.pc = "read_runner",
                                     !.snapshot_data = fs_input.data]
                ELSE BundlerFail
  /\ UNCHANGED << inputs, damaged, runner, loaderVars >>
\* 1. Read Snapshot: File::open(&args.input)?; read_to_end
ReadSnapshot ==
  /\ bundler.pc = "read_snapshot"
  /\ bundler' = IF fs_input.st = "file"
                THEN [bundler EXCEPT !.pc = "read_runner",
                                     !.snapshot_data = fs_input.data]
                ELSE BundlerFail
  /\ UNCHANGED << inputs, out, damaged, runner, loaderVars >>

\* 2. Read Runner: File::open(&args.runner)?; read_to_end
ReadRunner ==
  /\ bundler.pc = "read_runner"
  /\ bundler' = IF fs_runner.st = "file"
                THEN [bundler EXCEPT !.pc = "read_shader",
                                     !.runner_data = fs_runner.data]
                ELSE BundlerFail
  /\ UNCHANGED << inputs, out, damaged, runner, loaderVars >>

\* 3. Optional Shader: no path leaves shader_data empty; a path that cannot
\* be opened fails the run
ReadShader ==
  /\ bundler.pc = "read_shader"
  /\ bundler' = IF fs_shader.st = "missing" THEN BundlerFail
                ELSE [bundler EXCEPT !.pc = "read_pokes",
                                     !.shader_data = fs_shader.data]
  /\ UNCHANGED << inputs, out, damaged, runner, loaderVars >>

\* 4. Optional Pokes
ReadPokes ==
  /\ bundler.pc = "read_pokes"
  /\ bundler' = IF fs_pokes.st = "missing" THEN BundlerFail
                ELSE [bundler EXCEPT !.pc = "read_config",
                                     !.pokes_data = fs_pokes.data]
  /\ UNCHANGED << inputs, out, damaged, runner, loaderVars >>

\* 5. Optional Config
ReadConfig ==
  /\ bundler.pc = "read_config"
  /\ bundler' = IF fs_config.st = "missing" THEN BundlerFail
                ELSE [bundler EXCEPT !.pc = "compress",
                                     !.config_data = fs_config.data]
  /\ UNCHANGED << inputs, out, damaged, runner, loaderVars >>

\* if !data.is_empty() { Some(compress_data(&data)?) } else { None }
CompressOptional(data) ==
  IF data # << >> THEN Some(compress_data(data)) ELSE None

\* 6. Prepare and Compress data, and build the footer (len() as u32)
Compress ==
  /\ bundler.pc = "compress"
  /\ LET cs == compress_data(bundler.snapshot_data)
         sh == CompressOptional(bundler.shader_data)
         pk == CompressOptional(bundler.pokes_data)
         cf == CompressOptional(bundler.config_data)
     IN  bundler' = [bundler EXCEPT
           !.pc = "create",
           !.compressed_snapshot = cs,
           !.compressed_shader = sh,
           !.compressed_pokes = pk,
           !.compressed_config = cf,
           !.footer = Footer_new(AsU32(Len(cs)), AsU32(OptLen(sh)),
                                 AsU32(OptLen(pk)), AsU32(OptLen(cf)))]
  /\ UNCHANGED << inputs, out, damaged, runner, loaderVars >>

\* 7. Write Output: File::create(&output_path)? truncates or creates the
\* file; it can fail (the directory is missing or not writable)
Create ==
  /\ bundler.pc = "create"
  /\ \E created \in BOOLEAN :
       IF created
       THEN /\ out' = [exists |-> TRUE, data |-> << >>, exec |-> out.exec]
            /\ bundler' = [bundler EXCEPT !.pc = "write_runner"]
       ELSE /\ out' = out
            /\ bundler' = BundlerFail
  /\ UNCHANGED << inputs, damaged, runner, loaderVars >>

\* output_file.write_all(bytes): appended at the file's end; where is the
\* name under which the position of the write is kept
WriteAll(where, bytes, next) ==
  /\ out' = [out EXCEPT !.data = out.data \o bytes]
  /\ bundler' = [bundler EXCEPT !.pc = next, !.pos[where] = Len(out.data)]
  /\ UNCHANGED << inputs, damaged, runner, loaderVars >>

\* if let Some(v) = compressed { output_file.write_all(&v)?; }
WriteOptional(where, compressed, next) ==
  IF compressed.some THEN WriteAll(where, compressed.data, next)
  ELSE /\ bundler' = [bundler EXCEPT !.pc = next]
       /\ UNCHANGED << inputs, out, damaged, runner, loaderVars >>

WriteRunner ==
  /\ bundler.pc = "write_runner"
  /\ WriteAll("runner", bundler.runner_data, "write_snapshot")

WriteSnapshot ==
  /\ bundler.pc = "write_snapshot"
  /\ WriteAll("snapshot", bundler.compressed_snapshot, "write_shader")

WriteShader ==
  /\ bundler.pc = "write_shader"
  /\ WriteOptional("shader", bundler.compressed_shader, "write_pokes")

WritePokes ==
  /\ bundler.pc = "write_pokes"
  /\ WriteOptional("pokes", bundler.compressed_pokes, "write_config")

WriteConfig ==
  /\ bundler.pc = "write_config"
  /\ WriteOptional("config", bundler.compressed_config, "write_footer")

WriteFooter ==
  /\ bundler.pc = "write_footer"
  /\ WriteAll("footer", Footer_as_bytes(bundler.footer), "set_permissions")

\* #[cfg(unix)] perms.set_mode(0o755); then Ok(())
SetPermissions ==
  /\ bundler.pc = "set_permissions"
  /\ out' = [out EXCEPT !.exec = TRUE]
  /\ bundler' = [bundler EXCEPT !.pc = "done", !.result = "ok"]
  /\ UNCHANGED << inputs, damaged, runner, loaderVars >>

\* ------------------------------------------------------------------------
\* Changes made to the bundle after it was written: the runner reads
\* whatever file it is started from
\* ------------------------------------------------------------------------

Blocks == {"snapshot", "shader", "pokes", "config"}

\* s with the byte at 0-based position p replaced by b
SetByte(s, p, b) == [s EXCEPT ![p + 1] = b]

\* the first byte of a written block (the zlib CMF byte, 0x78) becomes 0x79,
\* or the first byte of the footer's magic becomes "["
Damage(part) ==
  /\ bundler.pc = "done" /\ bundler.result = "ok"
  /\ runner.pc = "idle"
  /\ part \notin damaged
  /\ LET p == bundler.pos[IF part = "magic" THEN "footer" ELSE part]
     IN  /\ p >= 0
         /\ out' = [out EXCEPT !.data = SetByte(out.data, p, out.data[p + 1] + 1)]
  /\ damaged' = damaged \cup {part}
  /\ UNCHANGED << inputs, bundler, runner, loaderVars >>

DamageBlock == \E part \in Blocks : Damage(part)
DamageMagic == Damage("magic")

\* ------------------------------------------------------------------------
\* zexe-runner main: the extraction of the embedded resources
\* ------------------------------------------------------------------------

\* file.seek(SeekFrom::Start(offset)); read_exact into a buffer of size bytes
ReadAt(f, offset, size) == Slice(f, offset, offset + size)

\* decompress_data(..).unwrap_or_default()
SnapshotOf(comp) ==
  LET r == decompress_data(comp) IN IF r.ok THEN r.data ELSE << >>

TextOf_lossy(comp) ==
  LET r == decompress_data(comp)
  IN  IF r.ok THEN Some(r.data) ELSE None
\* if let Ok(decomp) = decompress_data(..) && let Ok(s) = String::from_utf8(decomp)
TextOf(comp) ==
  LET r == decompress_data(comp)
  IN  IF r.ok /\ from_utf8_ok(r.data) THEN Some(r.data) ELSE None

\* if let Ok(decomp) = decompress_data(..) && let Ok(c) = serde_json::from_slice
ConfigOf(comp) ==
  LET r == decompress_data(comp)
  IN  IF r.ok THEN from_slice_Config(r.data) ELSE NoConfig

\* &footer.magic == FOOTER_MAGIC
MagicMatches_unchecked(footer_buf) == Len(footer_buf) = FOOTER_SIZE
MagicMatches(footer_buf) == SubSeq(footer_buf, 1, 4) = FOOTER_MAGIC

\* the four offsets, each as main computes it (u64 arithmetic: a value below
\* zero here is an underflow there)
snapshot_offset_short(file_len, footer) ==
  file_len - FOOTER_SIZE - footer.config_size - footer.pokes_size
           - footer.snapshot_size
snapshot_offset(file_len, footer) ==
  file_len - FOOTER_SIZE - footer.config_size - footer.pokes_size
           - footer.shader_size - footer.snapshot_size

shader_offset(file_len, footer) ==
  file_len - FOOTER_SIZE - footer.config_size - footer.pokes_size
           - footer.shader_size

pokes_offset_short(file_len, footer) ==
  file_len - FOOTER_SIZE - footer.pokes_size
pokes_offset(file_len, footer) ==
  file_len - FOOTER_SIZE - footer.config_size - footer.pokes_size

config_offset(file_len, footer) ==
  file_len - FOOTER_SIZE - footer.config_size

\* main up to the call of run_emulator, started from the file f.
\* overflow_checks: whether the build traps integer overflow (the debug
\* profile) or wraps (the release profile).
main(f, overflow_checks) ==
  LET file_len == Len(f)
      base     == [RunnerInit EXCEPT !.file = f]
  IN
  IF file_len < FOOTER_SIZE THEN [base EXCEPT !.pc = "started"]
  ELSE
  LET footer_buf == SubSeq(f, file_len - FOOTER_SIZE + 1, file_len)
      footer     == Footer_transmute(footer_buf)
  IN
  \* the magic is compared on the buffer: the size fields of a buffer that
  \* is no footer are not evaluated
  IF ~MagicMatches(footer_buf) THEN [base EXCEPT !.pc = "started"]
  ELSE
  IF snapshot_offset(file_len, footer) < 0
  THEN \* u64 subtraction below zero: a panic, or a wrapped offset that
       \* seek refuses, and main returns the error
       [base EXCEPT !.pc = IF overflow_checks THEN "panicked" ELSE "failed"]
  ELSE
  [ pc              |-> "started",
    file            |-> f,
    snapshot_data   |->
      SnapshotOf(ReadAt(f, snapshot_offset(file_len, footer),
                        footer.snapshot_size)),
    embedded_shader |->
      IF footer.shader_size > 0
      THEN TextOf(ReadAt(f, shader_offset(file_len, footer), footer.shader_size))
      ELSE None,
    embedded_pokes  |->
      IF footer.pokes_size > 0
      THEN TextOf(ReadAt(f, pokes_offset(file_len, footer), footer.pokes_size))
      ELSE None,
    embedded_config |->
      IF footer.config_size > 0
      THEN ConfigOf(ReadAt(f, config_offset(file_len, footer), footer.config_size))
      ELSE NoConfig,
    off |-> [ NoPos EXCEPT
              !.snapshot = snapshot_offset(file_len, footer),
              !.shader = IF footer.shader_size > 0
                         THEN shader_offset(file_len, footer) ELSE -1,
              !.pokes  = IF footer.pokes_size > 0
                         THEN pokes_offset(file_len, footer) ELSE -1,
              !.config = IF footer.config_size > 0
                         THEN config_offset(file_len, footer) ELSE -1 ] ]

\* the files the runner is started from: the bundle, or the bare template
ExeFiles ==
  (IF out.exists THEN {out.data} ELSE {})
    \cup (IF fs_runner.st = "file" THEN {fs_runner.data} ELSE {})

RunnerMain ==
  /\ bundler.pc = "done"
  /\ runner.pc = "idle"
  /\ \E f \in ExeFiles, overflow_checks \in BOOLEAN :
       runner' = main(f, overflow_checks)
  /\ UNCHANGED << inputs, out, damaged, bundler, loaderVars >>

Next ==
  \/ ReadSnapshot \/ ReadRunner \/ ReadShader \/ ReadPokes \/ ReadConfig
  \/ Compress \/ Create
  \/ WriteRunner \/ WriteSnapshot \/ WriteShader \/ WritePokes \/ WriteConfig
  \/ WriteFooter \/ SetPermissions
  \/ DamageBlock \/ DamageMagic
  \/ RunnerMain

Spec == Init /\ [][Next]_vars

\* ------------------------------------------------------------------------
\* Properties of the container (bundler and runner main)
\* ------------------------------------------------------------------------

\* the file ends with 20 bytes that begin with the magic
HasFooter(f) ==
  Len(f) >= FOOTER_SIZE
    /\ SubSeq(f, Len(f) - FOOTER_SIZE + 1, Len(f) - FOOTER_SIZE + 4) = FOOTER_MAGIC

\* the runner was started from the bundle exactly as the bundler wrote it
RanOnBundle ==
  /\ bundler.pc = "done" /\ bundler.result = "ok"
  /\ runner.pc # "idle"
  /\ runner.file = out.data

\* an optional resource the bundler embeds: its file exists and is not empty
Embeds(file) == file.st = "file" /\ file.data # << >>

\* C1: round trip. A non-empty snapshot S bundled by the Writer and read
\* back by the Reader from that very file comes out as S, whichever optional
\* resources are present.
C1_RoundTrip ==
  (RanOnBundle /\ damaged = {} /\ fs_input.data # << >>)
    => (runner.pc = "started" /\ runner.snapshot_data = fs_input.data)

\* C1 witness: a round trip with a shader embedded and no pokes
C1_Witness ==
  /\ RanOnBundle /\ damaged = {}
  /\ Len(fs_input.data) = MaxLen
  /\ Embeds(fs_shader) /\ ~Embeds(fs_pokes) /\ Embeds(fs_config)
  /\ runner.snapshot_data = fs_input.data

\* C2: a file shorter than 20 bytes, or whose last 20 bytes do not begin
\* with "ZXND", gives no snapshot, shader, pokes or config; main goes on to
\* run_emulator and computes no offset from the size fields.
C2_NoFooterNoResources ==
  (runner.pc # "idle" /\ ~HasFooter(runner.file))
    => /\ runner.pc = "started"
       /\ runner.snapshot_data = << >>
       /\ runner.embedded_shader = None
       /\ runner.embedded_pokes = None
       /\ runner.embedded_config = NoConfig
       /\ runner.off = NoPos

\* C2 witness: the runner started from a bundle whose magic was overwritten,
\* with every resource embedded
C2_Witness ==
  /\ RanOnBundle /\ damaged = {"magic"}
  /\ Embeds(fs_shader) /\ Embeds(fs_pokes) /\ Embeds(fs_config)
  /\ fs_input.data # << >>
  /\ runner.pc = "started" /\ runner.snapshot_data = << >>

\* the block the bundler writes for an optional resource file
WrittenBlock(file) == IF Embeds(file) THEN compress_data(file.data) ELSE << >>

\* C3: the Writer's output is base image, compressed snapshot, compressed
\* shader, pokes and config when present, then a 20-byte trailer: the magic
\* and the four block lengths, little-endian, in the order snapshot, shader,
\* pokes, config, 0 for an absent (or empty) resource.
C3_WriterLayout ==
  (bundler.pc = "done" /\ bundler.result = "ok" /\ damaged = {})
    => LET sn == compress_data(fs_input.data)
           sh == WrittenBlock(fs_shader)
           pk == WrittenBlock(fs_pokes)
           cf == WrittenBlock(fs_config)
           body == fs_runner.data \o sn \o sh \o pk \o cf
       IN  /\ Len(out.data) = Len(body) + 20
           /\ out.data = body \o << 90, 88, 78, 68 >>
                              \o LE32(Len(sn)) \o LE32(Len(sh))
                              \o LE32(Len(pk)) \o LE32(Len(cf))

\* C3 witness: a finished bundle with an empty shader file (absent), pokes
\* embedded and no config
C3_Witness ==
  /\ bundler.pc = "done" /\ bundler.result = "ok" /\ damaged = {}
  /\ fs_shader = File(<< >>) /\ Embeds(fs_pokes) /\ fs_config = NoPath
  /\ Len(fs_runner.data) > 0 /\ Len(fs_input.data) > 0

\* C4: with a matching magic the Reader's offsets are
\* config = fileLen - 20 - configSize, pokes = config - pokesSize,
\* shader = pokes - shaderSize, snapshot = shader - snapshotSize (an offset
\* is computed for the snapshot and for each resource of non-zero size), and
\* on the Writer's file each is the position the Writer wrote the block at.
C4_Offsets ==
  (runner.pc = "started" /\ HasFooter(runner.file))
    => LET n   == Len(runner.file)
           ft  == Footer_transmute(SubSeq(runner.file, n - 19, n))
           cfo == n - 20 - ft.config_size
           pko == cfo - ft.pokes_size
           sho == pko - ft.shader_size
           sno == sho - ft.snapshot_size
       IN  /\ runner.off.snapshot = sno
           /\ runner.off.shader = IF ft.shader_size > 0 THEN sho ELSE -1
           /\ runner.off.pokes  = IF ft.pokes_size > 0 THEN pko ELSE -1
           /\ runner.off.config = IF ft.config_size > 0 THEN cfo ELSE -1
           /\ (RanOnBundle /\ "magic" \notin damaged) =>
                /\ sno = bundler.pos.snapshot
                /\ \A k \in {"shader", "pokes", "config"} :
                     runner.off[k] = bundler.pos[k]

\* C4 witness: offsets read back from a bundle with pokes and config but no
\* shader, behind a non-empty base image
C4_Witness ==
  /\ RanOnBundle /\ damaged = {} /\ runner.pc = "started"
  /\ ~Embeds(fs_shader) /\ Embeds(fs_pokes) /\ Embeds(fs_config)
  /\ bundler.pos.snapshot > 0
  /\ runner.off.pokes = bundler.pos.pokes /\ runner.off.pokes > 0
  /\ runner.off.shader = -1

\* the snapshot block the runner read could not be decompressed
SnapshotBlockBad ==
  /\ runner.off.snapshot >= 0
  /\ LET n  == Len(runner.file)
         ft == Footer_transmute(SubSeq(runner.file, n - 19, n))
     IN  ~decompress_data(ReadAt(runner.file, runner.off.snapshot,
                                 ft.snapshot_size)).ok

\* C5: when the embedded snapshot block cannot be decompressed the load
\* attempt fails: main does not reach run_emulator.
C5_SnapshotFailureIsFatal ==
  (runner.pc # "idle" /\ HasFooter(runner.file) /\ SnapshotBlockBad)
    => runner.pc # "started"

\* what the runner extracts from an optional resource file through an
\* undamaged block
ExpectedText(file) ==
  IF Embeds(file) /\ from_utf8_ok(file.data) THEN Some(file.data) ELSE None
ExpectedConfig(file) ==
  IF Embeds(file) THEN from_slice_Config(file.data) ELSE NoConfig

\* C6: an optional resource whose block does not decompress, or whose bytes
\* are no text / no config, is absent; main still reaches run_emulator, and
\* the snapshot and every other resource are what they are without that
\* failure: each depends on its own block only.
C6_OptionalFailureIsLocal ==
  (RanOnBundle /\ "magic" \notin damaged)
    => /\ runner.pc = "started"
       /\ runner.snapshot_data =
            IF "snapshot" \in damaged THEN << >> ELSE fs_input.data
       /\ runner.embedded_shader =
            IF "shader" \in damaged THEN None ELSE ExpectedText(fs_shader)
       /\ runner.embedded_pokes =
            IF "pokes" \in damaged THEN None ELSE ExpectedText(fs_pokes)
       /\ runner.embedded_config =
            IF "config" \in damaged THEN NoConfig ELSE ExpectedConfig(fs_config)

\* C6 witness: the shader block is damaged, the config is valid JSON that is
\* no Config, and the snapshot and the pokes come out intact
C6_Witness ==
  /\ RanOnBundle /\ damaged = {"shader"} /\ runner.pc = "started"
  /\ Embeds(fs_shader) /\ from_utf8_ok(fs_shader.data)
  /\ runner.embedded_shader = None
  /\ Embeds(fs_config) /\ Len(fs_config.data) > 2
  /\ runner.embedded_config = NoConfig
  /\ runner.embedded_pokes = Some(fs_pokes.data) /\ fs_pokes.data # << >>
  /\ runner.snapshot_data = fs_input.data /\ fs_input.data # << >>

\* C7: the output file is created (or truncated) only after every input was
\* read and the blocks were compressed; a run whose snapshot or base image
\* cannot be opened ends in failure with the output file as it was.
C7_NoOutputBeforeInputs ==
  /\ (out \notin {NoOut, OldOut}) =>
       /\ fs_input.st = "file" /\ fs_runner.st = "file"
       /\ bundler.pc \notin {"read_snapshot", "read_runner", "read_shader",
                             "read_pokes", "read_config", "compress", "create"}
       /\ bundler.snapshot_data = fs_input.data
       /\ bundler.runner_data = fs_runner.data
       /\ bundler.compressed_snapshot = compress_data(fs_input.data)
  /\ (bundler.pc = "done" /\ (fs_input.st # "file" \/ fs_runner.st # "file"))
       => bundler.result = "err"

\* C7 witness: the bundler has failed on a missing base image and the old
\* output file is still there
C7_Witness ==
  /\ bundler.pc = "done" /\ bundler.result = "err"
  /\ fs_input.st = "file" /\ fs_runner.st = "missing"
  /\ out = OldOut

\* ------------------------------------------------------------------------
\* decompress_z80_block run on its own: every input over a small alphabet
\* (the marker byte 0xED, the counts 0 and 3, a data byte) into every
\* capacity, one action per loop iteration
\* ------------------------------------------------------------------------

MaxRleIn  == 5
MaxRleCap == 5

\* what the output buffer holds before the call
RleOld == 170

RleInputs ==
  {<< >>, << 237, 237, 5, 65 >>, << 1, 2, 3 >>}
    \cup SeqsUpTo({237, 0, 3, 65}, MaxRleIn)

ContainerIdle ==
  /\ fs_input = Missing /\ fs_runner = Missing
  /\ fs_shader = NoPath /\ fs_pokes = NoPath /\ fs_config = NoPath
  /\ out = NoOut /\ damaged = {}
  /\ bundler = BundlerInit /\ runner = RunnerInit

InitRle ==
  /\ ContainerIdle
  /\ \E input \in RleInputs, cap \in 0..MaxRleCap :
       rle = [pc |-> "loop"] @@ RleStart(input, Fill(cap, RleOld))
  /\ app = AppIdle
  /\ held = NoHeld
  /\ SessionIdle

RleMarkerStep ==
  /\ rle.pc = "loop" /\ RleCond(rle) /\ RleIsMarker(rle)
  /\ rle' = RleIter(rle)
  /\ UNCHANGED << containerVars, appVars, sessionVars >>

RleCopyStep ==
  /\ rle.pc = "loop" /\ RleCond(rle) /\ ~RleIsMarker(rle)
  /\ rle' = RleIter(rle)
  /\ UNCHANGED << containerVars, appVars, sessionVars >>

\* the loop condition fails: Ok(())
RleReturn ==
  /\ rle.pc = "loop" /\ ~RleCond(rle)
  /\ rle' = [rle EXCEPT !.pc = "done"]
  /\ UNCHANGED << containerVars, appVars, sessionVars >>

NextRle == RleMarkerStep \/ RleCopyStep \/ RleReturn

SpecRle == InitRle /\ [][NextRle]_vars

\* the reference scan, without a capacity: what the whole input stands for
RECURSIVE RleExpand(_)
RleExpand(s) ==
  IF s = << >> THEN << >>
  ELSE IF Len(s) >= 4 /\ s[1] = 237 /\ s[2] = 237
    THEN Fill(s[3], s[4]) \o RleExpand(SubSeq(s, 5, Len(s)))
  ELSE << s[1] >> \o RleExpand(Tail(s))

\* C8: the decoder's output is the reference scan cut at the capacity: a
\* group ED ED count value stands for count copies of value, any other byte
\* (also an ED ED with fewer than 4 bytes left) for itself; the buffer keeps
\* its length and, behind the last byte written, its old content. At every
\* iteration the bytes written so far are that prefix of the scan of the
\* input consumed so far. [ED,ED,05,41] into 5 bytes gives five 0x41, and
\* [01,02,03] into 3 bytes gives [01,02,03].
C8_RleIsReferenceScan ==
  LET cap  == Len(rle.output)
      scan == RleExpand(SubSeq(rle.input, 1, rle.i))
      all  == RleExpand(rle.input)
      n    == IF Len(all) <= cap THEN Len(all) ELSE cap
  IN  rle.pc # "idle" =>
        /\ rle.j <= cap /\ rle.i <= Len(rle.input)
        /\ rle.j = (IF Len(scan) <= cap THEN Len(scan) ELSE cap)
        /\ rle.output = SubSeq(scan, 1, rle.j) \o Fill(cap - rle.j, RleOld)
        /\ rle.pc = "done" =>
             /\ rle.output = SubSeq(all, 1, n) \o Fill(cap - n, RleOld)
             /\ (rle.i = Len(rle.input) \/ rle.j = cap)
             /\ (rle.input = << 237, 237, 5, 65 >> /\ cap = 5)
                  => rle.output = << 65, 65, 65, 65, 65 >>
             /\ (rle.input = << 1, 2, 3 >> /\ cap = 3)
                  => rle.output = << 1, 2, 3 >>

\* C8 witness: the two examples are not enough to show every branch; this
\* run copies a byte, then expands a group of three that the capacity cuts
\* after two
C8_Witness ==
  /\ rle.pc = "done"
  /\ rle.input = << 65, 237, 237, 3, 0 >>
  /\ rle.output = << 65, 0, 0 >>


\* ------------------------------------------------------------------------
\* App::new: the snapshot the runner was given is converted to the
\* canonical layout according to its length and its first bytes
\* ------------------------------------------------------------------------

SNA48_LEN == 49179

\* the sets of files the runner is started with; what each holds is kept
\* beside it
StackPointers == {36864, 0, 1, 16385, 16386}
PagingPorts   == (0..7) \cup {21}

Z80Files48 ==
  { [file |-> Z80FileV1(Regs(sp), FALSE),
     held |-> Holds("z80", Regs(sp), 0, AllPages("full"))] : sp \in StackPointers }
  \cup
  { [file |-> Z80FileV1(Regs(sp), TRUE),
     held |-> Holds("z80", Regs(sp), 0,
                    [AllPages("zero") EXCEPT ![5] = "full", ![2] = "head"])]
      : sp \in StackPointers }
  \cup
  { [file |-> Z80FileV23(Regs(sp), v[1], v[2], 0, v[3]),
     held |-> Holds("z80", Regs(sp), 0, AllPages("full"))]
      : sp \in StackPointers, v \in {<< 23, 0, TRUE >>, << 54, 1, FALSE >>} }

Z80Files128 ==
  { [file |-> Z80FileV23(Regs(36864), v[1], v[2], port, v[3]),
     held |-> Holds("z80", Regs(36864), port, AllPages("full"))]
      : port \in PagingPorts,
        v \in {<< 54, 4, TRUE >>, << 55, 12, TRUE >>, << 23, 3, FALSE >>} }

SzxFiles48 ==
  { [file |-> SzxFile(Regs(sp), v[1], 0, v[2]), held |-> Holds("szx", Regs(sp), 0, AllPages("full"))]
      : sp \in StackPointers, v \in {<< 1, FALSE >>, << 2, TRUE >>} }

SzxFiles128 ==
  { [file |-> SzxFile(Regs(36864), 3, port, FALSE),
     held |-> Holds("szx", Regs(36864), port, AllPages("full"))] : port \in PagingPorts }
  \cup
  { [file |-> SzxFile(Regs(36864), 6, port, TRUE),
     held |-> Holds("szx", Regs(36864), port, AllPages("full"))] : port \in {0, 5} }

\* version 2 files with further hardware modes; a mode outside 3..13 has
\* the three blocks 8, 4, 5 of a 48K machine
Z80FilesModes ==
  { [file |-> Z80FileV23(Regs(36864), 23, hw, 0, TRUE),
     held |-> Holds("z80", Regs(36864), 0, AllPages("full"))]
      : hw \in {2, 7, 13, 14, 255} }

\* files with an extended header of another length than 23, 54, 55, their
\* body written as blocks: 30 bytes (48K and 128K hardware), and 2 bytes
\* (the header ends after its PC field)
Z80FilesLens ==
  { [file |-> Z80FileV23(Regs(36864), 30, hw, 0, FALSE),
     held |-> Holds("z80", Regs(36864), 0, AllPages("full"))] : hw \in {0, 4} }
  \cup
  { [file |-> << Lit(Z80BaseFile(Regs(36864), 0, FALSE) \o LE16(2)
                       \o << Regs(36864).pc % 256, Regs(36864).pc \div 256 >>) >>
                   \o Z80BlocksFile("48K", << 5, 2, 0 >>, FALSE),
     held |-> Holds("z80", Regs(36864), 0, AllPages("full"))] }

\* the pages a file supplies: those of the list, the others by no block or chunk
PagesOf(list) ==
  [p \in 0..7 |-> IF \E k \in DOMAIN list : list[k] = p THEN "full" ELSE "none"]

\* a version 2 file with a block for the banks of the list only
Z80FileWith(rg, hardware_mode, port, banks, compressed) ==
  << Seg(Z80BaseFile(rg, 0, FALSE) \o LE16(23)
           \o << rg.pc % 256, rg.pc \div 256, hardware_mode, port >>, 19, 0) >>
    \o Z80BlocksFile(IF hardware_mode \in 3..13 THEN "128K" ELSE "48K",
                     banks, compressed)

\* a Format B file with the chunks of the list after its register chunks
SzxFileWith(rg, machine_id, port, chunks) ==
  << Lit(SZX_SIGNATURE \o << 1, 4, machine_id, 0 >>
           \o SzxRegsChunk(rg) \o SzxSpecChunk(rg, port)) >> \o chunks

\* files that supply no block or chunk for one page
Z80FilesMissing ==
  { [file |-> Z80FileWith(Regs(36864), v[1], v[2], v[3], v[4]),
     held |-> Holds("z80", Regs(36864), v[2], PagesOf(v[3]))]
      : v \in { << 0, 0, << 5, 0 >>, FALSE >>,
                << 1, 0, << 2, 0 >>, TRUE >>,
                << 0, 0, << 5, 2 >>, FALSE >>,
                << 4, 3, << 0, 1, 2, 4, 5, 6, 7 >>, FALSE >>,
                << 4, 0, << 0, 1, 2, 3, 4, 6, 7 >>, FALSE >> } }

SzxFilesMissing ==
  { [file |-> SzxFileWith(Regs(36864), v[1], v[2], SzxPagesFile(v[3], v[4])),
     held |-> Holds("szx", Regs(36864), v[2], PagesOf(v[3]))]
      : v \in { << 1, 0, << 0, 5 >>, FALSE >>,
                << 2, 0, << 2, 5 >>, TRUE >>,
                << 1, 0, << 0, 2 >>, FALSE >>,
                << 3, 3, << 0, 1, 2, 4, 5, 6, 7 >>, FALSE >>,
                << 4, 0, << 0, 1, 3, 4, 5, 6, 7 >>, FALSE >>,
                << 5, 0, << 0, 1, 2, 3, 5, 6, 7 >>, FALSE >> } }

\* a RAM-page chunk whose content is PAGE + delta bytes long (7, 7, 7, then
\* zeros), raw or as a zlib stream
WrongPage(delta) == << Seg(<< 7, 7, 7 >>, PAGE - 3 + delta, 0) >>
SzxWrongChunk(p, delta, compressed) ==
  IF compressed
    THEN << Lit(SzxChunkHead(TAG_RAMP, 3 + PAGE + delta + 11) \o << 1, 0, p >>) >>
           \o ZlibFile(WrongPage(delta))
    ELSE << Lit(SzxChunkHead(TAG_RAMP, 3 + PAGE + delta) \o << 0, 0, p >>) >>
           \o WrongPage(delta)

\* the pages of the list, page p by a chunk of a wrong length only
PagesButWrong(list, p) == [PagesOf(list) EXCEPT ![p] = "wrong"]

\* files with a RAM-page chunk of a wrong length: as the only chunk of its
\* page, and behind or in front of a good chunk of the same page
SzxFilesWrong ==
  { [file |-> SzxFileWith(Regs(36864), 1, 0,
                SzxPagesFile(<< 0, 5 >>, FALSE) \o SzxWrongChunk(2, -1, FALSE)),
     held |-> Holds("szx", Regs(36864), 0, PagesButWrong(<< 0, 5 >>, 2))],
    [file |-> SzxFileWith(Regs(36864), 2, 0,
                SzxWrongChunk(0, 1, TRUE) \o SzxPagesFile(<< 2, 5 >>, FALSE)),
     held |-> Holds("szx", Regs(36864), 0, PagesButWrong(<< 2, 5 >>, 0))],
    [file |-> SzxFileWith(Regs(36864), 3, 0,
                SzxWrongChunk(5, -1, TRUE)
                  \o SzxPagesFile(<< 0, 1, 2, 3, 4, 6, 7 >>, FALSE)),
     held |-> Holds("szx", Regs(36864), 0,
                    PagesButWrong(<< 0, 1, 2, 3, 4, 6, 7 >>, 5))],
    [file |-> SzxFileWith(Regs(36864), 1, 0,
                SzxPagesFile(<< 0, 2, 5 >>, FALSE) \o SzxWrongChunk(2, -1, FALSE)),
     held |-> Holds("szx", Regs(36864), 0, PagesOf(<< 0, 2, 5 >>))],
    [file |-> SzxFileWith(Regs(36864), 1, 0,
                SzxWrongChunk(5, 1, FALSE) \o SzxPagesFile(<< 0, 2, 5 >>, TRUE)),
     held |-> Holds("szx", Regs(36864), 0, PagesOf(<< 0, 2, 5 >>))] }

\* a Format B file with all eight pages behind the given signature and
\* machine identifier
SzxFileSigned(signature, machine_id) ==
  << Lit(signature \o << 1, 4, machine_id, 0 >>
           \o SzxRegsChunk(Regs(36864)) \o SzxSpecChunk(Regs(36864), 0)) >>
    \o SzxPagesFile(<< 0, 1, 2, 3, 4, 5, 6, 7 >>, FALSE)

MachineIds == (0..8) \cup {128, 255}

\* every machine identifier behind the signature
SzxFilesIds ==
  { [file |-> SzxFileSigned(SZX_SIGNATURE, id),
     held |-> Holds("szx", Regs(36864), 0, AllPages("full"))] : id \in MachineIds }

\* a chunk with a tag the decoder does not know ("XXXX")
SzxUnknownChunk(payload) == SzxChunkHead(<< 88, 88, 88, 88 >>, Len(payload)) \o payload

\* a register chunk of 40 bytes (the bytes "RAM" behind the 37 registers),
\* and one of 35 bytes
SzxLongRegsChunk(rg) ==
  SzxChunkHead(TAG_Z80R, REGS_LEN + 3) \o SubSeq(SzxRegsChunk(rg), 9, 8 + REGS_LEN)
    \o << 82, 65, 77 >>
SzxShortRegsChunk(rg) ==
  SzxChunkHead(TAG_Z80R, REGS_LEN - 2) \o SubSeq(SzxRegsChunk(rg), 9, 8 + REGS_LEN - 2)

\* other registers, with border 2 and paging port 7
OtherRegs == [Regs(4660) EXCEPT !.a = 77, !.i = 78, !.pc = 4369, !.border = 2]

\* a file with unknown chunks around the chunks it holds: an empty one, then
\* behind the register chunks ones whose content is a register chunk and a
\* border chunk with other values, behind the pages one whose content is a
\* RAM-page chunk for page 5 with the bytes of page 1, and one whose
\* declared length ends behind the file
SzxFramedFile(regs_chunk, rg, machine_id, port, pages) ==
  << Lit(SZX_SIGNATURE \o << 1, 4, machine_id, 0 >>
           \o SzxUnknownChunk(<< >>)
           \o regs_chunk \o SzxSpecChunk(rg, port)
           \o SzxUnknownChunk(SzxRegsChunk(OtherRegs))
           \o SzxUnknownChunk(SzxSpecChunk(OtherRegs, 7))) >>
    \o SzxPagesFile(pages, FALSE)
    \o << Lit(SzxChunkHead(<< 88, 88, 88, 88 >>, 8 + 3 + PAGE)
                \o SzxChunkHead(TAG_RAMP, 3 + PAGE) \o << 0, 0, 5 >>) >>
    \o PageFile(1)
    \o << Lit(SzxChunkHead(<< 88, 88, 88, 88 >>, 1000) \o << 1, 2 >>) >>

SzxFilesFramed ==
  { [file |-> SzxFramedFile(SzxLongRegsChunk(Regs(sp)), Regs(sp), 1, 0, << 0, 2, 5 >>),
     held |-> Holds("szx", Regs(sp), 0, AllPages("full"))] : sp \in {36864, 0} }
  \cup
  { [file |-> SzxFramedFile(SzxShortRegsChunk(Regs(36864)), Regs(36864), 3, port,
                            << 0, 1, 2, 3, 4, 5, 6, 7 >>),
     held |-> Holds("szx", Regs(36864), port, AllPages("full"))] : port \in {4, 21} }

\* a canonical 128K snapshot: the header, pages 5, 2 and the active page,
\* PC, paging port, a zero byte, the five other pages
Sna128File(rg, port) ==
  << Lit(<< rg.i, rg.l_alt, rg.h_alt, rg.e_alt, rg.d_alt, rg.c_alt, rg.b_alt,
            rg.f_alt, rg.a_alt, rg.l, rg.h, rg.e, rg.d, rg.c, rg.b,
            rg.iy_low, rg.iy_high, rg.ix_low, rg.ix_high, 4, rg.r, rg.f, rg.a,
            rg.sp % 256, rg.sp \div 256, rg.im, rg.border >>) >>
    \o PageFile(5) \o PageFile(2) \o PageFile(port % 8)
    \o << Lit(<< rg.pc % 256, rg.pc \div 256, port, 0 >>) >>
    \o PageFile(1) \o PageFile(3) \o PageFile(4) \o PageFile(6) \o PageFile(7)

SnaFiles128 ==
  { [file |-> Sna128File(Regs(36864), port),
     held |-> Holds("sna128", Regs(36864), port, AllPages("full"))] : port \in {0, 16} }

\* a canonical 48K snapshot, and no snapshot at all
OtherFiles ==
  { [file |-> << Seg(<< 63, 1, 2 >>, SNA48_LEN - 3, 0) >>,
     held |-> Holds("sna", Regs(0), 0, AllPages("zero"))],
    [file |-> << >>, held |-> Holds("empty", Regs(0), 0, AllPages("zero"))] }

SnapshotFiles ==
  Z80Files48 \cup Z80Files128 \cup SzxFiles48 \cup SzxFiles128 \cup OtherFiles
    \cup Z80FilesModes \cup Z80FilesLens \cup Z80FilesMissing \cup SzxFilesMissing
    \cup SzxFilesWrong \cup SzxFilesIds \cup SzxFilesFramed
    \cup SnaFiles128

\* let mut machine = Sinclair48K; let mut loaded_data = snapshot_data.to_vec()
AppStart(file, overflow_checks) ==
  [pc |-> "new", snapshot_data |-> file, overflow_checks |-> overflow_checks,
   result |-> "none", machine |-> "48K", loaded_data |-> Unconverted]

InitLoad ==
  /\ ContainerIdle
  /\ rle = RleIdle
  /\ SessionIdle
  /\ \E input \in SnapshotFiles, overflow_checks \in BOOLEAN :
       /\ app = AppStart(input.file, overflow_checks)
       /\ held = input.held

\* if let Ok((data, m)) = convert..(snapshot_data) { loaded_data = data;
\* machine = m }: an Err changes nothing, a panic ends the program
Loaded(a, r) ==
  IF r.st = "panic" THEN [a EXCEPT !.pc = "panicked", !.result = "panic"]
  ELSE IF r.st = "ok"
    THEN [a EXCEPT !.pc = "ready", !.result = "ok",
                   !.machine = r.machine, !.loaded_data = Sparse(r.sna)]
  ELSE [a EXCEPT !.pc = "ready", !.result = "err"]

starts_with(s, prefix) ==
  Len(s) >= Len(prefix) /\ SubSeq(s, 1, Len(prefix)) = prefix

\* snapshot_data.is_empty()
NoSnapshot ==
  /\ app.pc = "new"
  /\ Bytes(app.snapshot_data) = << >>
  /\ app' = [app EXCEPT !.pc = "ready"]
  /\ UNCHANGED << containerVars, codecVars, held, sessionVars >>

\* snapshot_data.len() == 49179
LoadSna ==
  /\ app.pc = "new"
  /\ Len(Bytes(app.snapshot_data)) = SNA48_LEN
  /\ app' = [app EXCEPT !.pc = "ready", !.result = "sna"]
  /\ UNCHANGED << containerVars, codecVars, held, sessionVars >>

\* snapshot_data.starts_with(b"ZXST")
ConvertSzx ==
  /\ app.pc = "new"
  /\ LET snapshot_data == Bytes(app.snapshot_data)
     IN  /\ snapshot_data # << >>
         /\ Len(snapshot_data) # SNA48_LEN
         /\ starts_with(snapshot_data, SZX_SIGNATURE)
         /\ app' = Loaded(app, convert_szx_to_sna(snapshot_data, app.overflow_checks))
  /\ UNCHANGED << containerVars, codecVars, held, sessionVars >>

\* every other snapshot
ConvertZ80 ==
  /\ app.pc = "new"
  /\ LET snapshot_data == Bytes(app.snapshot_data)
     IN  /\ snapshot_data # << >>
         /\ Len(snapshot_data) # SNA48_LEN
         /\ ~starts_with(snapshot_data, SZX_SIGNATURE)
         /\ app' = Loaded(app, convert_z80_to_sna(snapshot_data))
  /\ UNCHANGED << containerVars, codecVars, held, sessionVars >>

NextLoad == NoSnapshot \/ LoadSna \/ ConvertSzx \/ ConvertZ80

SpecLoad == InitLoad /\ [][NextLoad]_vars

\* ------------------------------------------------------------------------
\* The canonical layouts, from what the file holds
\* ------------------------------------------------------------------------

\* the non-zero bytes of seq laid from position base + 1 on
SeqEntries(seq, base) ==
  { << base + k, seq[k] >> : k \in { k \in 1..Len(seq) : seq[k] # 0 } }

\* the non-zero bytes of page p, of the given kind, laid from base + 1 on
PageEntries(kind, p, base) ==
  IF kind \in {"zero", "none", "wrong"} THEN {}
  ELSE SeqEntries(PageHead(p), base)
         \cup (IF kind = "full" THEN { << base + PAGE, PageLast(p) >> } ELSE {})

\* the pages of the list, one behind the other, from base + 1 on
RECURSIVE PagesEntries(_, _, _)
PagesEntries(pages, list, base) ==
  IF list = << >> THEN {}
  ELSE PageEntries(pages[Head(list)], Head(list), base)
         \cup PagesEntries(pages, Tail(list), base + PAGE)

\* the header fields in the documented order, with sp in the SP field; the
\* interrupt-enable byte (position 20) is left at 0 here
HeaderFields(rg, sp) ==
  << rg.i, rg.l_alt, rg.h_alt, rg.e_alt, rg.d_alt, rg.c_alt, rg.b_alt,
     rg.f_alt, rg.a_alt, rg.l, rg.h, rg.e, rg.d, rg.c, rg.b,
     rg.iy_low, rg.iy_high, rg.ix_low, rg.ix_high, 0, rg.r, rg.f, rg.a,
     sp % 256, sp \div 256, rg.im, rg.border >>

\* the position of the interrupt-enable byte
IffPos == {20}

\* the positions in a 48K buffer of the two bytes a push with the stack
\* pointer sp writes, when both addresses sp-2 and sp-1 lie in RAM
StackPositions(sp) ==
  LET new_sp == WrappingSub2(sp)
  IN  IF new_sp >= PAGE /\ new_sp + 1 < U16
        THEN {27 + (new_sp - PAGE) + 1, 27 + (new_sp - PAGE) + 2}
        ELSE {}

\* the entries of a buffer at the positions outside the set skip
Outside(entries, skip) == { e \in entries : e[1] \notin skip }

\* the ascending list of the pages 0..7 from i on other than 5, 2 and active
RECURSIVE OtherPages(_, _)
OtherPages(active, i) ==
  IF i > 7 THEN << >>
  ELSE (IF i \in {5, 2, active} THEN << >> ELSE << i >>) \o OtherPages(active, i + 1)

Converted48  == app.pc = "ready" /\ app.result = "ok" /\ app.machine = "48K"
Converted128 == app.pc = "ready" /\ app.result = "ok" /\ app.machine = "128K"

\* the bytes of the snapshot given to App::new
GivenBytes == Bytes(app.snapshot_data)

\* a Format A file with an extended header: PC field 0 and the two length
\* bytes there; its length field and its hardware-mode byte
HasExtended(z) == Len(z) >= 32 /\ at(z, 6) = 0 /\ at(z, 7) = 0
ExtendedLen(z) == FromLE16(at(z, 30), at(z, 31))
HardwareMode(z) == IF ExtendedLen(z) >= 3 /\ Len(z) >= 35 THEN at(z, 34) ELSE 0

\* the Format A files whose body the decoder reads by another rule than the
\* file is written in: an extended header of a length other than 23, 54, 55
\* (read as a version 1 body, C13), or a hardware mode other than 0, 1 and
\* 3..13 (read with the 128K page identifiers, C12)
ReadOtherwise(z) ==
  HasExtended(z) /\ (ExtendedLen(z) \notin {23, 54, 55}
                       \/ HardwareMode(z) \notin {0, 1} \cup (3..13))

\* the file is in Format A or B and the decoder reads its body as written
AsHeld ==
  \/ held.format = "szx"
  \/ held.format = "z80" /\ ~ReadOtherwise(GivenBytes)

\* C9: whenever either decoder has converted a file as the 48K variant, the
\* buffer is 49179 bytes long: the 27 header fields I, HL', DE', BC', AF',
\* HL, DE, BC, IY, IX, interrupt-enable byte, R, AF, SP, interrupt mode,
\* border, each pair low byte first, then pages 5, 2, 0 of 16384 bytes. The
\* SP field and the two stack bytes are as the push of the PC leaves them
\* (C11); the value of the interrupt-enable byte is not compared here (C27).
\* The content is compared for the files whose body is read as written
\* (which identifiers and which body a Format A file is read by is C12, C13).
C9_Layout48 ==
  Converted48 =>
    LET rg   == held.regs
        skip == IffPos \cup StackPositions(rg.sp)
        want == SeqEntries(HeaderFields(rg, WrappingSub2(rg.sp)), 0)
                  \cup PagesEntries(held.pages, << 5, 2, 0 >>, 27)
    IN  /\ app.loaded_data.len = SNA48_LEN
        /\ app.loaded_data.len = 27 + 3 * PAGE
        /\ AsHeld => Outside(app.loaded_data.nz, skip) = Outside(want, skip)

\* C9 witness: a Format B file has been converted as the 48K variant; the
\* I register is the first byte and the last byte of page 0 the last one
C9_Witness ==
  /\ Converted48
  /\ held.format = "szx"
  /\ held.regs.sp = 36864
  /\ << 1, held.regs.i >> \in app.loaded_data.nz
  /\ << 27 + 3 * PAGE, PageLast(0) >> \in app.loaded_data.nz

\* the 128K layout with exactly the pages of rest behind the extension
\* header
Layout128(rest) ==
  LET rg     == held.regs
      active == held.port % 8
      ext    == 27 + 3 * PAGE
      want   == SeqEntries(HeaderFields(rg, rg.sp), 0)
                  \cup PagesEntries(held.pages, << 5, 2, active >>, 27)
                  \cup SeqEntries(<< rg.pc % 256, rg.pc \div 256, held.port, 0 >>, ext)
                  \cup PagesEntries(held.pages, rest, ext + 4)
  IN  /\ app.loaded_data.len = ext + 4 + Len(rest) * PAGE
      /\ Outside(app.loaded_data.nz, IffPos) = Outside(want, IffPos)

ByteAt(buf, k) ==
  IF \E e \in buf.nz : e[1] = k THEN (CHOOSE e \in buf.nz : e[1] = k)[2] ELSE 0

\* the non-zero bytes of a buffer behind its 27-byte header
RamEntries(buf) == { e \in buf.nz : e[1] > 27 }

\* C11: whenever either decoder has converted a file as the 48K variant, the
\* SP field is (SP - 2) mod 65536; when the addresses SP-2 and SP-1 both lie
\* in 16384..65535 the RAM image holds PC low at SP-2 and PC high at SP-1 and
\* every other RAM byte is the page content; otherwise the RAM image is the
\* page content (for the files whose body is read as written, see C9)
C11_PushPc ==
  (Converted48 /\ AsHeld) =>
    LET rg    == held.regs
        buf   == app.loaded_data
        a2    == (rg.sp + 65534) % 65536
        a1    == (rg.sp + 65535) % 65536
        pos2  == 27 + (a2 - 16384) + 1
        pages == PagesEntries(held.pages, << 5, 2, 0 >>, 27)
    IN  /\ ByteAt(buf, 24) = a2 % 256
        /\ ByteAt(buf, 25) = a2 \div 256
        /\ IF a2 >= 16384 /\ a1 >= 16384
             THEN /\ ByteAt(buf, pos2) = rg.pc % 256
                  /\ ByteAt(buf, pos2 + 1) = rg.pc \div 256
                  /\ Outside(RamEntries(buf), {pos2, pos2 + 1})
                       = Outside(pages, {pos2, pos2 + 1})
             ELSE RamEntries(buf) = pages

\* C11 witness: a Format A file with SP = 0 has been converted: the SP field
\* is 65534 and the PC is in the last two bytes of the buffer, over the last
\* byte of page 0
C11_Witness ==
  /\ Converted48
  /\ held.format = "z80"
  /\ held.regs.sp = 0
  /\ held.pages[0] = "full"
  /\ ByteAt(app.loaded_data, 24) = 254 /\ ByteAt(app.loaded_data, 25) = 255
  /\ ByteAt(app.loaded_data, SNA48_LEN - 1) = held.regs.pc % 256
  /\ ByteAt(app.loaded_data, SNA48_LEN) = held.regs.pc \div 256

\* the bank a page identifier stands for on a machine, -1 for none
BankOf(machine, page) ==
  IF machine = "48K"
    THEN (IF page = 8 THEN 5 ELSE IF page = 4 THEN 2 ELSE IF page = 5 THEN 0 ELSE -1)
    ELSE (IF page \in 3..10 THEN page - 3 ELSE -1)

\* a Format A file with a version 2/3 body has been converted
ConvertedBlocks ==
  /\ app.pc = "ready" /\ app.result = "ok" /\ held.format = "z80"
  /\ HasExtended(GivenBytes) /\ ExtendedLen(GivenBytes) \in {23, 54, 55}

\* C12: whenever the Format A decoder has converted a version 2/3 body, the
\* page identifiers it read the blocks by are those of the machine variant
\* it selected: on 48K the identifiers 8, 4, 5 for banks 5, 2, 0, on 128K
\* the identifiers 3..10 for banks 0..7, every other identifier ignored; so
\* a 48K result has the pages of the blocks 8, 4, 5 as its pages 5, 2, 0
C12_PageTable ==
  ConvertedBlocks =>
    LET z  == GivenBytes
        ex == Z80Ext(z, Z80Header(z))
    IN  /\ \A page \in 0..255 : Z80BankIdx(ex, page) = BankOf(app.machine, page)
        /\ app.machine = "48K" =>
             Outside(RamEntries(app.loaded_data), StackPositions(held.regs.sp))
               = Outside(PagesEntries(held.pages, << 5, 2, 0 >>, 27),
                         StackPositions(held.regs.sp))

\* the Format A decoder has converted a file
ConvertedZ80 == app.pc = "ready" /\ app.result = "ok" /\ held.format = "z80"

\* C13: whenever the Format A decoder has converted a file whose PC field is
\* zero, the body was parsed as length-prefixed page blocks, whatever the
\* length of the extended header (so a 48K result of a file with hardware
\* mode 0 or 1 has the pages of its blocks); the single-block version 1
\* body is used only when the PC field is not zero
C13_BlocksWhenPcZero ==
  ConvertedZ80 =>
    LET z    == GivenBytes
        hd   == Z80Header(z)
        ex   == Z80Ext(z, hd)
        body == Z80Body(z, hd, ex)
    IN  IF hd.pc = 0
          THEN /\ body = Z80Blocks(z, ex, ex.pos, ZeroBanks)
               /\ (app.machine = "48K" /\ HardwareMode(z) \in {0, 1}) =>
                    Outside(RamEntries(app.loaded_data), StackPositions(held.regs.sp))
                      = Outside(PagesEntries(held.pages, << 5, 2, 0 >>, 27),
                                StackPositions(held.regs.sp))
          ELSE body.banks = Z80BodyV1(z, hd, ex)

\* the machine variant the file is written for
GivenVariant ==
  LET z == GivenBytes
  IN  IF held.format = "szx"
        THEN (IF at(z, 6) \in 3..6 THEN "128K" ELSE "48K")
        ELSE (IF HasExtended(z) /\ HardwareMode(z) \in 3..13 THEN "128K" ELSE "48K")

\* the pages a conversion needs
Mandatory ==
  IF GivenVariant = "48K" THEN {5, 2, 0} ELSE {5, 2, held.port % 8}

\* a mandatory page is supplied by no block or chunk of the file
MissesPage ==
  /\ held.format \in {"z80", "szx"} /\ AsHeld
  /\ \E p \in Mandatory : held.pages[p] = "none"

\* C14: whenever App::new has run a decoder on a file that supplies no block
\* or chunk for a mandatory page (5, 2, 0 on 48K; 5, 2 and the active page
\* on 128K), the conversion has failed with an error and no canonical
\* snapshot was returned
C14_MissingPageFails ==
  (app.pc = "ready" /\ MissesPage) =>
    /\ app.result = "err"
    /\ app.loaded_data = Unconverted

\* App::new has run the Format B decoder on a Format B file
RanSzx == app.pc = "ready" /\ held.format = "szx"

\* C15: whenever the Format B decoder has run, every page of its page map
\* has exactly 16384 bytes: a RAM-page chunk whose content (inflated when
\* flag bit 0 is set) has another length put nothing into the map, a page
\* with a good chunk is that chunk's content, and when a page 5, 2 or 0 (the
\* active page on 128K) has only a chunk of a wrong length the conversion
\* has failed with an error
C15_OnlyFullPages ==
  RanSzx =>
    LET z   == GivenBytes
        loc == SzxChunks(z, SzxStart, 8, app.overflow_checks)
    IN  /\ \A p \in DOMAIN loc.ram_pages : Len(loc.ram_pages[p]) = PAGE
        /\ loc.st = "ok" =>
             \A p \in 0..7 :
               /\ held.pages[p] = "wrong" => p \notin DOMAIN loc.ram_pages
               /\ (held.pages[p] = "full" /\ p \in DOMAIN loc.ram_pages) =>
                    loc.ram_pages[p] = Bytes(PageFile(p))
        /\ (\E p \in Mandatory : held.pages[p] = "wrong") =>
             app.result = "err" /\ app.loaded_data = Unconverted

C15_Witness ==
  /\ RanSzx /\ held.pages[2] = "wrong" /\ app.result = "err"
  /\ LET z == GivenBytes
     IN  /\ Slice(z, 8 + 45 + 16 + 2 * (8 + 3 + PAGE), 8 + 45 + 16 + 2 * (8 + 3 + PAGE) + 4) = TAG_RAMP
         /\ ReadU32(z, 8 + 45 + 16 + 2 * (8 + 3 + PAGE) + 4) = 3 + PAGE - 1

\* ------------------------------------------------------------------------
\* The two decoders called on their own: convert_szx_to_sna(szx_data) and
\* convert_z80_to_sna(z80_data) with inputs App::new would not hand them
\* ------------------------------------------------------------------------

\* "ZXSU", "zxst", "\0XST", "ZXTS", "Z80R"
OtherSignatures ==
  { << 90, 88, 83, 85 >>, << 122, 120, 115, 116 >>, << 0, 88, 83, 84 >>,
    << 90, 88, 84, 83 >>, TAG_Z80R }

\* the inputs of the Format B decoder: every machine identifier, another
\* signature in front of a complete file, and the files that end inside
\* the 8 bytes of the header
\* a file whose only RAM-page chunk declares size bytes (fewer than the
\* flags and the page number take, for size < 3) and has given bytes behind
\* its header
SzxShortPageFile(size, given) ==
  << Lit(SZX_SIGNATURE \o << 1, 4, 1, 0 >>
           \o SzxRegsChunk(Regs(36864)) \o SzxSpecChunk(Regs(36864), 0)
           \o SzxChunkHead(TAG_RAMP, size) \o SubSeq(<< 0, 0, 5, 65, 66 >>, 1, given)) >>

SzxFilesShortPage ==
  { [file |-> SzxShortPageFile(size, given),
     held |-> Holds("szx", Regs(36864), 0, AllPages("none"))]
      : size \in 0..4, given \in {1, 3, 5} }

SzxCalls ==
  SzxFilesIds \cup SzxFiles48 \cup SzxFilesWrong \cup SzxFilesFramed
  \cup SzxFilesShortPage
  \cup
  { [file |-> SzxFileSigned(signature, id),
     held |-> Holds("szx", Regs(36864), 0, AllPages("full"))]
      : signature \in OtherSignatures, id \in {1, 3, 7} }
  \cup
  { [file |-> << Lit(SubSeq(signature \o << 1, 4, 1, 0 >>, 1, n)) >>,
     held |-> Holds("szx", Regs(36864), 0, AllPages("none"))]
      : signature \in {SZX_SIGNATURE, << 90, 88, 83, 85 >>}, n \in 0..8 }

\* the call has returned (or panicked)
Called(a, r, decoder) ==
  LET b == Loaded(a, r)
  IN  [b EXCEPT !.pc = IF b.pc = "panicked" THEN "panicked" ELSE decoder]

CallSzx ==
  /\ app.pc = "call_szx"
  /\ app' = Called(app, convert_szx_to_sna(Bytes(app.snapshot_data),
                                           app.overflow_checks), "szx_returned")
  /\ UNCHANGED << containerVars, codecVars, held, sessionVars >>

\* a Format A file with PC field 0 that ends k bytes behind the base
\* header: the length field, PC, hardware mode, paging port, then zeros
Z80Truncated(header_len, hardware_mode, k) ==
  << Lit(Z80BaseFile(Regs(36864), 0, FALSE)
           \o SubSeq(LE16(header_len) \o << 35, 129, hardware_mode, 0 >>
                       \o Fill(60, 0), 1, k)) >>

HeaderLens == {0, 1, 2, 3, 4, 23, 54, 55, 300, 65535}
Endings == (0..6) \cup {24, 25, 55, 56, 57, 58, 66}
HardwareModes == (0..16) \cup {127, 128, 255}

\* the inputs of the Format A decoder: the files that end inside the base
\* header or inside the extended header, the complete headers of every
\* hardware mode with no block behind them, and files with blocks
Z80Calls ==
  { [file |-> << Lit(SubSeq(Z80BaseFile(Regs(36864), 33059, FALSE), 1, n)) >>,
     held |-> Holds("z80", Regs(36864), 0, AllPages("zero"))] : n \in 0..30 }
  \cup
  { [file |-> Z80Truncated(header_len, 0, k),
     held |-> Holds("z80", Regs(36864), 0, AllPages("zero"))]
      : header_len \in HeaderLens, k \in Endings }
  \cup
  { [file |-> Z80Truncated(header_len, hw, 2 + header_len),
     held |-> Holds("z80", Regs(36864), 0, AllPages("zero"))]
      : header_len \in {2, 3, 23, 54}, hw \in HardwareModes }
  \cup Z80FilesMissing \cup Z80FilesModes

CallZ80 ==
  /\ app.pc = "call_z80"
  /\ app' = Called(app, convert_z80_to_sna(Bytes(app.snapshot_data)), "z80_returned")
  /\ UNCHANGED << containerVars, codecVars, held, sessionVars >>

InitCall ==
  /\ ContainerIdle
  /\ rle = RleIdle
  /\ SessionIdle
  /\ \/ \E input \in SzxCalls, overflow_checks \in BOOLEAN :
          /\ app = [AppStart(input.file, overflow_checks) EXCEPT !.pc = "call_szx"]
          /\ held = input.held
     \/ \E input \in Z80Calls :
          /\ app = [AppStart(input.file, FALSE) EXCEPT !.pc = "call_z80"]
          /\ held = input.held

NextCall == CallSzx \/ CallZ80

SpecCall == InitCall /\ [][NextCall]_vars

\* C16: whenever the Format B decoder has returned, an input whose first 4
\* bytes are not "ZXST" and an input whose machine-identifier byte is
\* outside 1..6 were rejected with an error and no output; a conversion
\* that succeeded gave 48K for the identifiers 1, 2 and 128K for 3..6
C16_SzxRejects ==
  app.pc \in {"szx_returned", "panicked"} =>
    LET z == GivenBytes
    IN  /\ (~starts_with(z, SZX_SIGNATURE) \/ (Len(z) >= 7 /\ at(z, 6) \notin 1..6)) =>
             app.result = "err" /\ app.loaded_data = Unconverted
        /\ app.result = "ok" =>
             /\ at(z, 6) \in 1..6
             /\ app.machine = IF at(z, 6) \in {1, 2} THEN "48K" ELSE "128K"
             /\ app.loaded_data.len >= 27 + 3 * PAGE

\* a complete file with the identifier 7 was rejected
C16_Witness ==
  /\ app.pc = "szx_returned" /\ app.result = "err"
  /\ Len(GivenBytes) = 8 + 45 + 16 + 8 * (8 + 3 + PAGE)
  /\ starts_with(GivenBytes, SZX_SIGNATURE) /\ at(GivenBytes, 6) = 7

\* a Format B file with the signature, a machine identifier 1..6 and a good
\* chunk for every page of its machine
HoldsAll ==
  LET z == GivenBytes
  IN  /\ held.format = "szx" /\ Len(z) >= 8
      /\ starts_with(z, SZX_SIGNATURE) /\ at(z, 6) \in 1..6
      /\ \A p \in (IF at(z, 6) \in {1, 2} THEN {5, 2, 0} ELSE 0..7) :
           held.pages[p] = "full"

\* C17: a chunk with a tag the Format B decoder does not know changes no
\* decoder state and is no error, and the header of the next chunk is read
\* at chunk data start + declared length whatever the handler consumed: when
\* the decoder has returned from a file with the chunks of every page, it
\* has converted the file, and the result holds the registers, the border,
\* the paging port and the pages of the file's own chunks (the first 37
\* bytes of a longer register chunk), nothing of an unknown chunk's content
C17_ChunkFraming ==
  (app.pc = "szx_returned" /\ HoldsAll) =>
    /\ \A tag \in {<< 88, 88, 88, 88 >>, << 67, 82, 84, 82 >>} :
         \A size \in {0, 2, 37, HugeSize} :
           SzxChunk(GivenBytes, SzxStart, tag, 8, size, app.overflow_checks) = SzxStart
    /\ app.result = "ok"
    /\ IF app.machine = "48K"
         THEN LET rg   == held.regs
                  skip == IffPos \cup StackPositions(rg.sp)
                  want == SeqEntries(HeaderFields(rg, WrappingSub2(rg.sp)), 0)
                            \cup PagesEntries(held.pages, << 5, 2, 0 >>, 27)
              IN  Outside(app.loaded_data.nz, skip) = Outside(want, skip)
         ELSE Layout128(OtherPages(held.port % 8, 0))

\* a file with a 40-byte register chunk and the unknown chunks has been
\* converted
C17_Witness ==
  /\ app.pc = "szx_returned" /\ HoldsAll /\ app.result = "ok"
  /\ Slice(GivenBytes, 8, 12) = << 88, 88, 88, 88 >>
  /\ Slice(GivenBytes, 16, 20) = TAG_Z80R
  /\ ReadU32(GivenBytes, 20) = REGS_LEN + 3
  /\ ByteAt(app.loaded_data, 1) = held.regs.i
  /\ ByteAt(app.loaded_data, 27) = held.regs.border

\* C18: whenever the Format A decoder has returned, an input shorter than 30
\* bytes, and an input with PC field 0 that ends before the extended header
\* it announces (the 2 length bytes and as many bytes as they say) is
\* complete, have given an error and no canonical snapshot
C18_Z80Rejects ==
  app.pc \in {"z80_returned", "panicked"} =>
    LET z == GivenBytes
    IN  (\/ Len(z) < 30
         \/ /\ at(z, 6) = 0 /\ at(z, 7) = 0
            /\ (Len(z) < 32 \/ Len(z) < 32 + ExtendedLen(z))) =>
          app.result = "err" /\ app.loaded_data = Unconverted

\* a file that ends one byte before its 23-byte extended header does
C18_Witness ==
  /\ app.pc = "z80_returned" /\ app.result = "err"
  /\ Len(GivenBytes) = 30 + 24
  /\ at(GivenBytes, 6) = 0 /\ at(GivenBytes, 7) = 0
  /\ ExtendedLen(GivenBytes) = 23

\* C19: the Format A decoder selects the machine variant from the
\* hardware-mode byte alone: whenever it has converted an input, the result
\* is 128K when the input has an extended header of 3 bytes or more whose
\* hardware-mode byte is in 3..13, and 48K for every other byte value, for
\* an extended header shorter than 3 bytes and for an input with no
\* extended header
C19_MachineByMode ==
  /\ \A hardware_mode \in 0..255 :
       Z80Machine(hardware_mode) = IF hardware_mode \in 3..13 THEN "128K" ELSE "48K"
  /\ (app.pc = "z80_returned" /\ app.result = "ok") =>
       LET z == GivenBytes
       IN  app.machine = IF /\ HasExtended(z) /\ ExtendedLen(z) >= 3
                            /\ at(z, 34) \in 3..13
                          THEN "128K" ELSE "48K"

\* a file with hardware mode 13 has been converted as 128K
C19_Witness ==
  /\ app.pc = "z80_returned" /\ app.result = "ok" /\ app.machine = "128K"
  /\ HasExtended(GivenBytes) /\ ExtendedLen(GivenBytes) = 23
  /\ at(GivenBytes, 34) = 13

\* C20: whenever App::new has handled a snapshot that is already canonical
\* (49179 bytes, or 131103 bytes of the 128K form), no decoder has run on
\* it: the buffer handed to the emulator is the snapshot byte for byte, with
\* the 48K machine for the 49179-byte form and the 128K machine for the
\* 131103-byte form
C20_CanonicalPassThrough ==
  (app.pc = "ready" /\ held.format \in {"sna", "sna128"}) =>
    /\ app.result = "sna"
    /\ app.loaded_data = Unconverted
    /\ app.machine = IF held.format = "sna" THEN "48K" ELSE "128K"

\* ------------------------------------------------------------------------
\* zexe-runner main.rs: parse_pokes_content(content)
\* A text is its bytes; the texts of the model are ASCII, where the white
\* space of split_whitespace is 9..13 and 32.
\* ------------------------------------------------------------------------

IsSpace(b) == b \in (9..13) \cup {32}

\* the position of the first byte b of s from p on, 0 when there is none
RECURSIVE Find(_, _, _)
Find(s, b, p) ==
  IF p > Len(s) THEN 0 ELSE IF s[p] = b THEN p ELSE Find(s, b, p + 1)

\* content.lines(): the text between line feeds, a carriage return in front
\* of the line feed taken off; no line behind the last line feed
RECURSIVE lines(_)
lines(content) ==
  IF content = << >> THEN << >>
  ELSE LET nl == Find(content, 10, 1)
       IN  IF nl = 0 THEN << content >>
           ELSE LET line == SubSeq(content, 1, nl - 1)
                    cut  == IF line # << >> /\ line[Len(line)] = 13
                              THEN SubSeq(line, 1, Len(line) - 1) ELSE line
                IN  << cut >> \o lines(SubSeq(content, nl + 1, Len(content)))

\* the end of the run of bytes from p on that are (space = TRUE) or are not
\* (space = FALSE) white space: the first position behind it
RECURSIVE RunEnd(_, _, _)
RunEnd(s, p, space) ==
  IF p <= Len(s) /\ IsSpace(s[p]) = space THEN RunEnd(s, p + 1, space) ELSE p

\* line.split_whitespace().collect()
RECURSIVE split_whitespace(_, _)
split_whitespace(line, p) ==
  LET from == RunEnd(line, p, TRUE)
      to   == RunEnd(line, from, FALSE)
  IN  IF from > Len(line) THEN << >>
      ELSE << SubSeq(line, from, to - 1) >> \o split_whitespace(line, to)

ParseErr == [ok |-> FALSE, v |-> 0]

\* the digits of s from p on added to acc, an error at a byte that is no
\* digit and when the value passes max (checked_mul, checked_add)
RECURSIVE Digits(_, _, _, _)
Digits(s, p, acc, max) ==
  IF p > Len(s) THEN [ok |-> TRUE, v |-> acc]
  ELSE IF ~IsDigit(s[p]) THEN ParseErr
  ELSE IF 10 * acc + (s[p] - 48) > max THEN ParseErr
  ELSE Digits(s, p + 1, 10 * acc + (s[p] - 48), max)

\* s.parse::<u16>() with max = 65535, s.parse::<u8>() with max = 255: an
\* optional "+", then one decimal digit or more
parse_unsigned(s, max) ==
  LET first == IF s # << >> /\ s[1] = 43 THEN 2 ELSE 1
  IN  IF first > Len(s) THEN ParseErr ELSE Digits(s, first, 0, max)

PokeEntry(addr, value, original) ==
  [addr |-> addr, value |-> value, original |-> original]

\* parts[0] == "M" only
IsPokeLine_only_M(parts) ==
  Len(parts) >= 5 /\ parts[1] = << 77 >>

\* parts.len() >= 5 && (parts[0] == "M" || parts[0] == "Z")
IsPokeLine(parts) ==
  Len(parts) >= 5 /\ (parts[1] = << 77 >> \/ parts[1] = << 90 >>)

\* the body of the for loop: the entries the line adds
PokesOfLine(line) ==
  LET parts == split_whitespace(line, 1)
  IN  IF ~IsPokeLine(parts) THEN << >>
      ELSE LET addr == parse_unsigned(parts[3], 65535)
               val  == parse_unsigned(parts[4], 255)
               org  == parse_unsigned(parts[5], 255)
           IN  IF addr.ok /\ val.ok /\ org.ok
                 THEN << PokeEntry(addr.v, val.v, org.v) >>
               ELSE << >>

RECURSIVE PokesOfLines(_)
PokesOfLines(ls) ==
  IF ls = << >> THEN << >>
  ELSE PokesOfLine(Head(ls)) \o PokesOfLines(Tail(ls))

parse_pokes_content(content) == PokesOfLines(lines(content))

\* ------------------------------------------------------------------------
\* zexe-runner main.rs: the settings of App::new and the key handlers of
\* window_event. The emulator's memory is kept at the addresses MemAddrs
\* (RAM addresses); config_json is the file config.json of the current
\* directory: missing, no JSON ("text"), a JSON array, or an object with a
\* volume.
\* ------------------------------------------------------------------------

MemAddrs == {30000, 40000}

\* emulator.execute_poke(ManualPoke { actions }): the writes in order; which
\* is "value" or "original"
RECURSIVE execute_poke(_, _, _)
execute_poke(memory, pokes, which) ==
  IF pokes = << >> THEN memory
  ELSE LET p == Head(pokes)
           b == IF which = "value" THEN p.value ELSE p.original
       IN  execute_poke(IF p.addr \in DOMAIN memory
                          THEN [memory EXCEPT ![p.addr] = b] ELSE memory,
                        Tail(pokes), which)

\* the names of the modes, as the config holds them
ModeNames ==
  [ Off       |-> << 79, 102, 102 >>,
    Kempston  |-> << 75, 101, 109, 112, 115, 116, 111, 110 >>,
    Sinclair1 |-> << 83, 105, 110, 99, 108, 97, 105, 114, 49 >>,
    Sinclair2 |-> << 83, 105, 110, 99, 108, 97, 105, 114, 50 >>,
    Cursor    |-> << 67, 117, 114, 115, 111, 114 >>,
    Full      |-> << 70, 117, 108, 108 >>,
    Minimal   |-> << 77, 105, 110, 105, 109, 97, 108 >>,
    None      |-> << 78, 111, 110, 101 >>,
    Nearest   |-> << 78, 101, 97, 114, 101, 115, 116 >>,
    Linear    |-> << 76, 105, 110, 101, 97, 114 >>,
    Scanlines |-> << 83, 99, 97, 110, 108, 105, 110, 101, 115 >>,
    Embedded  |-> << 69, 109, 98, 101, 100, 100, 101, 100 >>,
    Custom    |-> << 67, 117, 115, 116, 111, 109 >> ]

\* match c.joystick.as_str()
JoystickOf(s) ==
  IF s = ModeNames.Kempston THEN "Kempston"
  ELSE IF s = ModeNames.Sinclair1 THEN "Sinclair1"
  ELSE IF s = ModeNames.Sinclair2 THEN "Sinclair2"
  ELSE IF s = ModeNames.Cursor THEN "Cursor"
  ELSE "Off"

\* match c.border.as_str()
BorderOf(s) ==
  IF s = ModeNames.Minimal THEN "Minimal"
  ELSE IF s = ModeNames.None THEN "None"
  ELSE "Full"

\* match f_mode.as_str()
FilteringOf(s, embedded_shader, retro_shader) ==
  IF s = ModeNames.Nearest THEN "Nearest"
  ELSE IF s = ModeNames.Linear THEN "Linear"
  ELSE IF s = ModeNames.Embedded /\ embedded_shader THEN "Embedded"
  ELSE IF s = ModeNames.Custom /\ retro_shader THEN "Custom"
  ELSE "Scanlines"

\* main: if let Ok(decomp) = decompress_data(..) && let Ok(c) =
\* serde_json::from_slice::<Config>(&decomp) { embedded_config = Some(c) }
DeserializeConfig ==
  /\ ui.pc = "main"
  /\ ui' = [ui EXCEPT !.pc = "new",
                      !.embedded_config =
                         IF ui.config_text.some THEN from_slice_Config(ui.config_text.data)
                         ELSE NoConfig]
  /\ UNCHANGED << containerVars, codecVars, appVars, cur >>

\* App::new: config_volume, default_filtering, the fields of Self, the pokes
\* applied when enabled on startup, then the dynamic config
AppNew ==
  /\ ui.pc = "new"
  /\ LET c == ui.embedded_config
         config_volume == IF c.some THEN c.v.volume ELSE 100
         default_filtering == IF ui.embedded_shader THEN "Embedded"
                              ELSE IF ui.retro_shader THEN "Custom"
                              ELSE "Nearest"
         pokes == IF ui.embedded_pokes.some
                    THEN parse_pokes_content(ui.embedded_pokes.data)
                  ELSE IF ui.pok_file.some THEN parse_pokes_content(ui.pok_file.data)
                  ELSE << >>
         pokes_enabled == IF c.some THEN c.v.cheats_enabled ELSE FALSE
     IN  ui' = [ui EXCEPT
           !.pc = "running",
           !.pokes = pokes,
           !.pokes_enabled = pokes_enabled,
           !.current_volume = config_volume,
           !.is_muted = FALSE,
           !.memory = IF pokes_enabled /\ pokes # << >>
                        THEN execute_poke(ui.memory, pokes, "value") ELSE ui.memory,
           !.is_fullscreen = IF c.some THEN c.v.fullscreen ELSE TRUE,
           !.filtering_mode =
              IF c.some /\ c.v.filtering.some
                THEN FilteringOf(c.v.filtering.s, ui.embedded_shader, ui.retro_shader)
              ELSE default_filtering,
           !.joystick_mode = IF c.some THEN JoystickOf(c.v.joystick) ELSE "Off",
           !.border_mode = IF c.some THEN BorderOf(c.v.border) ELSE "Full"]
  /\ UNCHANGED << containerVars, codecVars, appVars, cur >>

\* save_volume_to_config: config["volume"] = volume in a config.json that
\* parses; indexing a JSON value that is no object panics
save_volume_to_config(u, vol) ==
  IF u.config_json.st = "object"
    THEN [u EXCEPT !.config_json = [st |-> "object", volume |-> vol]]
  ELSE IF u.config_json.st = "array" THEN [u EXCEPT !.pc = "panicked"]
  ELSE u

\* F7 pressed, no repeat: vol = (vol - 10).max(0)
KeyF7 ==
  /\ ui.pc = "running"
  /\ LET vol == IF ui.current_volume - 10 > 0 THEN ui.current_volume - 10 ELSE 0
     IN  ui' = [save_volume_to_config([ui EXCEPT !.current_volume = vol], vol)
                  EXCEPT !.osd_message = [text |-> "VOLUME", n |-> vol]]
  /\ UNCHANGED << containerVars, codecVars, appVars, cur >>

\* F8 pressed, no repeat: vol = (vol + 10).min(200)
KeyF8 ==
  /\ ui.pc = "running"
  /\ LET vol == IF ui.current_volume + 10 < 200 THEN ui.current_volume + 10 ELSE 200
     IN  ui' = [save_volume_to_config([ui EXCEPT !.current_volume = vol], vol)
                  EXCEPT !.osd_message = [text |-> "VOLUME", n |-> vol]]
  /\ UNCHANGED << containerVars, codecVars, appVars, cur >>

\* F6 pressed, no repeat: with pokes, flip pokes_enabled and write the
\* values or the originals
\* the F6 branch writing the patched values on either toggle
KeyF6_values_only ==
  /\ ui.pc = "running"
  /\ ui' = IF ui.pokes = << >>
             THEN [ui EXCEPT !.osd_message = [text |-> "NO POKES FOUND", n |-> 0]]
           ELSE [ui EXCEPT
                   !.osd_message = [text |-> IF ~ui.pokes_enabled THEN "POKES: ON"
                                             ELSE "POKES: OFF", n |-> 0],
                   !.pokes_enabled = ~ui.pokes_enabled,
                   !.memory = execute_poke(ui.memory, ui.pokes, "value")]
  /\ UNCHANGED << containerVars, codecVars, appVars, cur >>

KeyF6 ==
  /\ ui.pc = "running"
  /\ ui' = IF ui.pokes = << >>
             THEN [ui EXCEPT !.osd_message = [text |-> "NO POKES FOUND", n |-> 0]]
           ELSE [ui EXCEPT
                   !.osd_message = [text |-> IF ~ui.pokes_enabled THEN "POKES: ON"
                                             ELSE "POKES: OFF", n |-> 0],
                   !.pokes_enabled = ~ui.pokes_enabled,
                   !.memory = execute_poke(ui.memory, ui.pokes,
                                IF ~ui.pokes_enabled THEN "value" ELSE "original")]
  /\ UNCHANGED << containerVars, codecVars, appVars, cur >>

\* ---- the inputs of a session ---------------------------------------------

\* the decimal digits of n
RECURSIVE Dec(_)
Dec(n) == IF n < 10 THEN << 48 + n >> ELSE Dec(n \div 10) \o << 48 + (n % 10) >>

Quoted(s) == << 34 >> \o s \o << 34 >>
Member(key, val) == Quoted(key) \o << 58 >> \o val

\* the JSON object of the members
RECURSIVE Joined(_)
Joined(members) ==
  IF Len(members) = 1 THEN members[1]
  ELSE members[1] \o << 44 >> \o Joined(Tail(members))
Object(members) ==
  << 123 >> \o (IF members = << >> THEN << >> ELSE Joined(members)) \o << 125 >>

ConfigVolumes == {0, 7, 50, 200, 201, 255}

\* config records: empty, a volume, every field valid, one field invalid
\* beside valid ones (volume 300, a number or a string where a boolean or a
\* string is due), an unknown field, no JSON
SessionConfigs ==
  { Object(<< >>), << 123 >> }
  \cup { Object(<< Member(ConfigFields.volume, Dec(v)) >>) : v \in ConfigVolumes }
  \cup
  { Object(<< Member(ConfigFields.fullscreen, JsonWords.false),
              Member(ConfigFields.filtering, Quoted(ModeNames.Linear)),
              Member(ConfigFields.joystick, Quoted(ModeNames.Kempston)),
              Member(ConfigFields.border, Quoted(ModeNames.None)),
              Member(ConfigFields.cheats_enabled, JsonWords.true),
              Member(ConfigFields.volume, Dec(50)) >>),
    Object(<< Member(ConfigFields.fullscreen, JsonWords.false),
              Member(ConfigFields.volume, Dec(300)) >>),
    Object(<< Member(ConfigFields.fullscreen, Dec(7)),
              Member(ConfigFields.joystick, Quoted(ModeNames.Cursor)),
              Member(ConfigFields.cheats_enabled, JsonWords.true) >>),
    Object(<< Member(ConfigFields.joystick, Dec(5)),
              Member(ConfigFields.volume, Dec(30)) >>),
    Object(<< Member(ConfigFields.cheats_enabled, Quoted(ModeNames.Full)),
              Member(ConfigFields.border, Quoted(ModeNames.Minimal)) >>),
    Object(<< Member(<< 99, 111, 108, 111, 117, 114 >>, Quoted(ModeNames.Full)),
              Member(ConfigFields.volume, Dec(30)) >>),
    Object(<< Member(ConfigFields.filtering, JsonWords.null),
              Member(ConfigFields.border, Quoted(ModeNames.Minimal)),
              Member(ConfigFields.cheats_enabled, JsonWords.true) >>),
    Object(<< Member(ConfigFields.joystick, Quoted(ModeNames.Custom)),
              Member(ConfigFields.filtering, Quoted(ModeNames.Custom)) >>) }

\* "M 8 30000 7 99", "Z 8 40000 255 0", "M 8 30000 8 98"
PokeLine(kind, addr, value, original) ==
  << kind, 32, 56, 32 >> \o Dec(addr) \o << 32 >> \o Dec(value) \o << 32 >>
    \o Dec(original) \o << 10 >>

\* poke lists: one entry, two entries, two entries for one address, a text
\* with no entry
SessionPokes ==
  { PokeLine(77, 30000, 7, 99),
    PokeLine(77, 30000, 7, 99) \o PokeLine(90, 40000, 255, 0),
    PokeLine(77, 30000, 7, 99) \o PokeLine(77, 30000, 8, 98),
    << 78, 32, 120, 10 >> }

SessionMemories == { [a \in MemAddrs |-> 0], [a \in MemAddrs |-> 99] }

SessionFiles ==
  { [st |-> "missing", volume |-> 0], [st |-> "text", volume |-> 0],
    [st |-> "array", volume |-> 0], [st |-> "object", volume |-> 100] }

InitSession ==
  /\ ContainerIdle
  /\ rle = RleIdle
  /\ app = AppIdle
  /\ held = NoHeld
  /\ cur = CurIdle
  /\ \E config \in {None} \cup {Some(x) : x \in SessionConfigs},
        pokes \in {<< None, None >>, << None, Some(PokeLine(90, 40000, 1, 2)) >>}
                    \cup {<< Some(x), None >> : x \in SessionPokes},
        memory \in SessionMemories, file \in SessionFiles :
       ui = [UiIdle EXCEPT !.pc = "main", !.config_text = config,
                           !.embedded_pokes = pokes[1], !.pok_file = pokes[2],
                           !.memory = memory, !.config_json = file]

NextSession == DeserializeConfig \/ AppNew \/ KeyF7 \/ KeyF8 \/ KeyF6

SpecSession == InitSession /\ [][NextSession]_vars

\* the recognised field named key in the config record given to main: how
\* often it is there, its value, and whether that value is valid for a field
\* of the kinds (a volume: also at most 255)
Given(key) ==
  LET members == JsonObject(ui.config_text.data).members
      where   == {i \in 1..Len(members) : members[i].key = key}
  IN  [count |-> Cardinality(where),
       val   |-> IF where = {} THEN JsonBad ELSE members[CHOOSE i \in where : TRUE].val]
ValidFor(key, kinds) ==
  Given(key).count = 1 /\ Given(key).val.kind \in kinds
    /\ (key = ConfigFields.volume => Given(key).val.n <= 255)
FieldKinds ==
  << << ConfigFields.fullscreen, {"bool"} >>, << ConfigFields.filtering, {"str", "null"} >>,
     << ConfigFields.joystick, {"str"} >>, << ConfigFields.border, {"str"} >>,
     << ConfigFields.cheats_enabled, {"bool"} >>, << ConfigFields.volume, {"num"} >> >>

\* the config record is a JSON object with each recognised field at most
\* once, and at most one of them with an invalid value
OneInvalidAtMost ==
  /\ ui.config_text.some /\ JsonObject(ui.config_text.data).ok
  /\ \A k \in 1..6 : Given(FieldKinds[k][1]).count <= 1
  /\ Cardinality({k \in 1..6 : Given(FieldKinds[k][1]).count = 1
                                 /\ ~ValidFor(FieldKinds[k][1], FieldKinds[k][2])}) <= 1

\* C21: configuration load recovers per field and never fails: once App::new
\* has run on a config record with at most one invalid recognised field,
\* each setting whose field is given with a valid value has that value, and
\* each setting whose field is missing or invalid has its default
\* (fullscreen on, joystick Off, border Full, cheats off, volume 100, the
\* default filtering); unrecognised fields change nothing
C21_PerFieldRecovery ==
  /\ ui.pc # "failed"
  /\ (ui.pc = "running" /\ OneInvalidAtMost /\ ui.osd_message.text = "none") =>
       /\ ui.is_fullscreen =
            IF ValidFor(ConfigFields.fullscreen, {"bool"})
              THEN Given(ConfigFields.fullscreen).val.b ELSE TRUE
       /\ ui.pokes_enabled =
            IF ValidFor(ConfigFields.cheats_enabled, {"bool"})
              THEN Given(ConfigFields.cheats_enabled).val.b ELSE FALSE
       /\ ui.current_volume =
            IF ValidFor(ConfigFields.volume, {"num"})
              THEN Given(ConfigFields.volume).val.n ELSE 100
       /\ ui.joystick_mode =
            IF ValidFor(ConfigFields.joystick, {"str"})
              THEN JoystickOf(Given(ConfigFields.joystick).val.s) ELSE "Off"
       /\ ui.border_mode =
            IF ValidFor(ConfigFields.border, {"str"})
              THEN BorderOf(Given(ConfigFields.border).val.s) ELSE "Full"
       /\ ui.filtering_mode =
            IF ValidFor(ConfigFields.filtering, {"str"})
              THEN FilteringOf(Given(ConfigFields.filtering).val.s,
                               ui.embedded_shader, ui.retro_shader)
            ELSE IF ui.embedded_shader THEN "Embedded"
            ELSE IF ui.retro_shader THEN "Custom" ELSE "Nearest"

\* C22: the volume is within 0..200 in every reachable state of the runner:
\* after App::new has loaded any embedded configuration and after any
\* sequence of F7 (minus 10, floor 0) and F8 (plus 10, cap 200) presses.
C22_VolumeInRange ==
  ui.pc \in {"running", "panicked"} => ui.current_volume \in 0..200

\* ---------------------------------------------------------------------
\* parse_pokes_content called on texts put together from lines of fields
\* ---------------------------------------------------------------------

\* the longest text given to the parser, in lines
MaxLines == 2

\* a field of a line: its bytes and the number they write (-1: none)
Num(n)   == [text |-> Dec(n), n |-> n]
Plus(n)  == [text |-> << 43 >> \o Dec(n), n |-> n]
Zeros(n) == [text |-> << 48, 48 >> \o Dec(n), n |-> n]
Word(w)  == [text |-> w, n |-> -1]

\* a line: its fields, the white space between them, in front and behind
LineOf(fields, gap, edge) == [fields |-> fields, gap |-> gap, edge |-> edge]

PokeLines ==
  { LineOf(<< Word(<< 77 >>), Num(0), Num(30000), Num(201), Num(0) >>, << 32 >>, << >>),
    LineOf(<< Word(<< 90 >>), Num(8), Num(40000), Num(0), Num(255) >>, << 32 >>, << >>),
    LineOf(<< Word(<< 77 >>), Num(0), Num(65535), Num(255), Num(7), Word(<< 59, 120 >>) >>,
           << 9, 32 >>, << 32, 9 >>),
    LineOf(<< Word(<< 90 >>), Word(<< 120 >>), Plus(5), Zeros(7), Num(0) >>, << 32, 32 >>, << >>),
    LineOf(<< Word(<< 77 >>), Num(0), Num(30000), Num(201) >>, << 32 >>, << >>),
    LineOf(<< Word(<< 78 >>), Num(0), Num(30000), Num(201), Num(0) >>, << 32 >>, << >>),
    LineOf(<< Word(<< 109 >>), Num(0), Num(30000), Num(1), Num(0) >>, << 32 >>, << >>),
    LineOf(<< Word(<< 77, 77 >>), Num(0), Num(30000), Num(1), Num(0) >>, << 32 >>, << >>),
    LineOf(<< Word(<< 77 >>), Num(0), Num(65536), Num(1), Num(0) >>, << 32 >>, << >>),
    LineOf(<< Word(<< 77 >>), Num(0), Num(30000), Num(256), Num(0) >>, << 32 >>, << >>),
    LineOf(<< Word(<< 90 >>), Num(0), Num(30000), Num(1), Num(99999999) >>, << 32 >>, << >>),
    LineOf(<< Word(<< 77 >>), Num(0), Word(<< 51, 120 >>), Num(1), Num(0) >>, << 32 >>, << >>),
    LineOf(<< Word(<< 77 >>), Num(0), Num(30000), Word(<< 45, 49 >>), Num(0) >>, << 32 >>, << >>),
    LineOf(<< Word(<< 77 >>), Num(0), Num(30000), Num(1), Word(<< 43 >>) >>, << 32 >>, << >>),
    LineOf(<< >>, << 32 >>, << 32 >>),
    LineOf(<< >>, << 32 >>, << >>) }

RECURSIVE Joined_by(_, _)
Joined_by(texts, gap) ==
  IF texts = << >> THEN << >>
  ELSE IF Len(texts) = 1 THEN texts[1]
  ELSE texts[1] \o gap \o Joined_by(Tail(texts), gap)

\* the bytes of a line, without its end
LineText(line) ==
  line.edge \o Joined_by([i \in 1..Len(line.fields) |-> line.fields[i].text], line.gap)
    \o line.edge

\* the bytes of a text: its lines, eol behind every line but the last, and
\* behind the last as well when closed
PokeText(ls, eol, closed) ==
  Joined_by([i \in 1..Len(ls) |-> LineText(ls[i])], eol)
    \o (IF closed THEN eol ELSE << >>)

PokeTexts ==
  { [given |-> ls, content |-> PokeText(ls, eol, closed)] :
      ls \in UNION { [1..n -> PokeLines] : n \in 1..MaxLines },
      eol \in { << 10 >>, << 13, 10 >> }, closed \in BOOLEAN }

InitPokes ==
  /\ ContainerIdle
  /\ rle = RleIdle
  /\ app = AppIdle
  /\ held = NoHeld
  /\ ui = UiIdle
  /\ \E t \in PokeTexts :
       cur = [pc |-> "pokes", given |-> t.given, content |-> t.content, pokes |-> << >>]

\* let pokes = parse_pokes_content(&content)
ParsePokes ==
  /\ cur.pc = "pokes"
  /\ cur' = [cur EXCEPT !.pc = "parsed", !.pokes = parse_pokes_content(cur.content)]
  /\ UNCHANGED << containerVars, codecVars, appVars, ui >>

NextPokes == ParsePokes

SpecPokes == InitPokes /\ [][NextPokes]_vars

\* the number a field writes is one of 0..max
WritesUpTo(field, max) == field.n \in 0..max

\* what the statement gives for a line: one entry when the line has five
\* fields or more, "M" or "Z" first, and an address, a value and an
\* original in the third, fourth and fifth place
EntriesOfLine(line) ==
  IF /\ Len(line.fields) >= 5
     /\ line.fields[1].text \in { << 77 >>, << 90 >> }
     /\ WritesUpTo(line.fields[3], 65535)
     /\ WritesUpTo(line.fields[4], 255)
     /\ WritesUpTo(line.fields[5], 255)
    THEN << PokeEntry(line.fields[3].n, line.fields[4].n, line.fields[5].n) >>
  ELSE << >>

RECURSIVE EntriesOfLines(_)
EntriesOfLines(ls) ==
  IF ls = << >> THEN << >> ELSE EntriesOfLine(Head(ls)) \o EntriesOfLines(Tail(ls))

\* C23: parse_pokes_content returns, in line order, exactly one entry per
\* line with at least 5 white-space separated fields, first field "M" or
\* "Z", and fields [2], [3], [4] an u16 address, an u8 value and an u8
\* original; every other line gives no entry and later lines are still
\* parsed.
C23_OneEntryPerPokeLine ==
  cur.pc = "parsed" => cur.pokes = EntriesOfLines(cur.given)

\* a text parsed whose first line gives no entry and whose second line
\* gives one
C23_Witness ==
  /\ cur.pc = "parsed"
  /\ Len(cur.given) = 2
  /\ EntriesOfLine(cur.given[1]) = << >>
  /\ Len(cur.given[1].fields) >= 5
  /\ cur.pokes = << PokeEntry(40000, 0, 255) >>

\* no two entries of the list have the same address
DistinctAddrs(pokes) ==
  \A i, j \in 1..Len(pokes) : pokes[i].addr = pokes[j].addr => i = j

\* the byte at every address of the list is the entry's value (which =
\* "value") or the entry's original (which = "original")
Poked(u, which) ==
  \A i \in 1..Len(u.pokes) :
    /\ u.pokes[i].addr \in DOMAIN u.memory
    /\ u.memory[u.pokes[i].addr] =
         IF which = "value" THEN u.pokes[i].value ELSE u.pokes[i].original

\* C24: pokes are reversible through the F6 toggle: with distinct addresses
\* and no other memory write, the byte at each poke address is the patched
\* value whenever pokes are enabled and the original value after a toggle to
\* disabled; the flag flips on each press with a non-empty list, a press
\* with an empty list changes neither the flag nor memory, and nothing but
\* the toggle writes memory.
C24_PokesReversible ==
  /\ [](ui.pc \in {"running", "panicked"} /\ ui.pokes_enabled /\ DistinctAddrs(ui.pokes)
          => Poked(ui, "value"))
  /\ [][ ui.pc = "running" =>
           /\ ui'.pokes = ui.pokes
           /\ KeyF6 => (ui.pokes = << >>) = (ui'.pokes_enabled = ui.pokes_enabled)
           /\ IF ui'.pokes_enabled = ui.pokes_enabled THEN ui'.memory = ui.memory
              ELSE /\ ui.pokes # << >>
                   /\ DistinctAddrs(ui.pokes) =>
                        Poked(ui', IF ui'.pokes_enabled THEN "value" ELSE "original") ]_vars

\* two pokes at two addresses switched off again: the originals are back in
\* a memory that held neither of them at the start
C24_Witness ==
  /\ ui.pc = "running"
  /\ Len(ui.pokes) = 2
  /\ DistinctAddrs(ui.pokes)
  /\ ~ui.pokes_enabled
  /\ ui.osd_message.text = "POKES: OFF"
  /\ ui.memory = [a \in MemAddrs |-> IF a = 30000 THEN 99 ELSE 0]

\* ---------------------------------------------------------------------
\* main of the runner started from files that end in a footer of any sizes
\* ---------------------------------------------------------------------

\* the most bytes in front of the footer
MaxBody == 4

\* declared sizes: none, within a short file, and far beyond it
FooterSizes == {0, 1, 2, 70000}

FooterFiles ==
  { Fill(n, 1) \o Footer_as_bytes(Footer_new(a, b, c, d)) :
      n \in 0..MaxBody, a \in FooterSizes, b \in FooterSizes,
      c \in FooterSizes, d \in FooterSizes }
    \cup { Fill(n, 1) \o << 90, 88, 78, 69 >> \o Fill(16, 255) : n \in 0..MaxBody }

InitFooter ==
  /\ fs_input = Missing /\ fs_runner = Missing
  /\ fs_shader = NoPath /\ fs_pokes = NoPath /\ fs_config = NoPath
  /\ out = NoOut /\ damaged = {}
  /\ bundler = BundlerInit
  /\ \E f \in FooterFiles : runner = [RunnerInit EXCEPT !.file = f]
  /\ rle = RleIdle
  /\ app = AppIdle
  /\ held = NoHeld
  /\ SessionIdle

\* fn main, the executable being runner.file
StartRunner ==
  /\ runner.pc = "idle"
  /\ \E overflow_checks \in BOOLEAN : runner' = main(runner.file, overflow_checks)
  /\ UNCHANGED << inputs, out, damaged, bundler, loaderVars >>

NextFooter == StartRunner

SpecFooter == InitFooter /\ [][NextFooter]_vars

\* the last 20 bytes of the file main was started from, and the footer
\* they are
FooterBuf == SubSeq(runner.file, Len(runner.file) - FOOTER_SIZE + 1, Len(runner.file))
FooterRead == Footer_transmute(FooterBuf)

\* main has run on a file whose last 20 bytes start with the magic
RanOnFooter ==
  /\ runner.pc # "idle"
  /\ Len(runner.file) >= FOOTER_SIZE
  /\ MagicMatches(FooterBuf)

\* the offset o of a block of declared size s lies within the file in front
\* of the footer
WithinBody(o, s) == 0 <= o /\ o + s <= Len(runner.file) - FOOTER_SIZE

\* C25: for every file whose trailer magic matches, also when the four
\* declared sizes sum to more than file_len - 20, main obtains no offset by
\* unsigned underflow and reads no block outside [0, file_len - 20): the
\* run neither traps nor fails on a wrapped offset, and every offset it
\* seeks to lies with its block in front of the footer.
C25_OffsetsWithinFile ==
  RanOnFooter =>
    /\ runner.pc = "started"
    /\ snapshot_offset(Len(runner.file), FooterRead) >= 0
    /\ WithinBody(runner.off.snapshot, FooterRead.snapshot_size)
    /\ FooterRead.shader_size > 0 => WithinBody(runner.off.shader, FooterRead.shader_size)
    /\ FooterRead.pokes_size > 0 => WithinBody(runner.off.pokes, FooterRead.pokes_size)
    /\ FooterRead.config_size > 0 => WithinBody(runner.off.config, FooterRead.config_size)

\* C26: the Format B decoder returns a canonical snapshot or an error value
\* for every input: a RAM-page chunk of declared length 0, 1 or 2 does not
\* make size - 3 underflow, so the call ends in no panic.
C26_SzxAlwaysReturns ==
  app.pc \in {"szx_returned", "panicked"} =>
    /\ app.pc = "szx_returned"
    /\ app.result \in {"ok", "err"}

\* C27: both decoders encode the source interrupt-enable flag the same way:
\* whenever a decoder has converted a file, bit 2 of byte 19 of the canonical
\* header is set exactly when the IFF2 byte of the file is not zero.
C27_IffBit ==
  (app.pc = "ready" /\ app.result = "ok" /\ held.format \in {"z80", "szx"} /\ AsHeld) =>
    (ByteAt(app.loaded_data, 20) \div 4) % 2 = (IF held.regs.iff2 # 0 THEN 1 ELSE 0)

\* C28: in the Format A decoder, when the PC field is zero the memory body
\* begins at input offset 32 + L for every extended-header length L, L = 0
\* and L = 1 included: whenever the decoder has returned from a file whose
\* extended header it has read to the end, the cursor stood at 32 + L.
C28_BodyStart ==
  (app.pc = "z80_returned" /\ HasExtended(GivenBytes)) =>
    LET ex == Z80Ext(GivenBytes, Z80Header(GivenBytes))
    IN  ex.ok => ex.pos = 32 + ExtendedLen(GivenBytes)

\* ---------------------------------------------------------------------
\* The decoding loops an iteration at a time: the block loop of
\* convert_z80_to_sna, the chunk loop of convert_szx_to_sna, and the scan of
\* decompress_z80_block
\* ---------------------------------------------------------------------

\* the most blocks or chunks of a file given to a loop
MaxBlocks == 2

\* vec![0u8; 16384] by its length and its non-zero bytes
ZeroPage == [len |-> PAGE, nz |-> {}]

\* the bytes of a buffer kept by its length and its non-zero bytes
Dense(buf) == [k \in 1..buf.len |-> ByteAt(buf, k)]

\* Sparse(s), s taken once
Kept(s) == CHOOSE buf \in { Sparse(v) : v \in {s} } : TRUE

\* the body of the block loop with the cursor left where it was for a page
\* identifier that is ignored
Z80Iteration_stay(z, hardware_mode, pos, banks) ==
  LET left == [st |-> "err", pos |-> pos, banks |-> banks, bank_idx |-> -1,
               chunk |-> << >>]
  IN
  IF Len(z) - pos < 3 THEN left
  ELSE
    LET block_len  == FromLE16(at(z, pos), at(z, pos + 1))
        page       == at(z, pos + 2)
        data_start == pos + 3
        data_end   == IF block_len = 65535 THEN data_start + PAGE
                      ELSE data_start + block_len
        bank_idx   == Z80BankIdx([hardware_mode |-> hardware_mode], page)
    IN  IF data_end > Len(z) THEN [left EXCEPT !.st = "break", !.pos = data_start]
        ELSE IF bank_idx = -1 THEN [left EXCEPT !.st = "loop", !.pos = pos]
        ELSE IF block_len = 65535
          THEN [left EXCEPT !.st = "loop", !.pos = data_end,
                            !.banks[bank_idx] = Kept(Slice(z, data_start, data_end))]
        ELSE [left EXCEPT !.st = "scan", !.pos = data_end, !.bank_idx = bank_idx,
                          !.chunk = Slice(z, data_start, data_end)]

\* the body of the while loop of convert_z80_to_sna, the cursor at pos, up
\* to the call of decompress_z80_block: the cursor and the banks behind it,
\* and how it goes on: "loop" (the condition is tested again), "break",
\* "err" (a read_u8 behind the end), or "scan" (chunk is decoded into the
\* bank bank_idx)
Z80Iteration(z, hardware_mode, pos, banks) ==
  LET left == [st |-> "err", pos |-> pos, banks |-> banks, bank_idx |-> -1,
               chunk |-> << >>]
  IN
  IF Len(z) - pos < 3 THEN left
  ELSE
    LET block_len  == FromLE16(at(z, pos), at(z, pos + 1))
        page       == at(z, pos + 2)
        data_start == pos + 3
        data_end   == IF block_len = 65535 THEN data_start + PAGE
                      ELSE data_start + block_len
        bank_idx   == Z80BankIdx([hardware_mode |-> hardware_mode], page)
    IN  IF data_end > Len(z) THEN [left EXCEPT !.st = "break", !.pos = data_start]
        ELSE IF bank_idx = -1 THEN [left EXCEPT !.st = "loop", !.pos = data_end]
        ELSE IF block_len = 65535
          THEN [left EXCEPT !.st = "loop", !.pos = data_end,
                            !.banks[bank_idx] = Kept(Slice(z, data_start, data_end))]
        ELSE [left EXCEPT !.st = "scan", !.pos = data_end, !.bank_idx = bank_idx,
                          !.chunk = Slice(z, data_start, data_end)]

\* while cursor.position() < z80_data.len(): the condition holds, the body
\* runs; for a compressed block decompress_z80_block is entered
Z80BlockIter ==
  /\ cur.pc = "z80_blocks"
  /\ cur.pos < Len(Bytes(cur.file))
  /\ \E it \in { Z80Iteration(Bytes(cur.file), cur.hardware_mode, cur.pos, cur.banks) } :
         /\ cur' = [cur EXCEPT !.pc = IF it.st = "loop" THEN "z80_blocks"
                                      ELSE IF it.st = "scan" THEN "z80_scan"
                                      ELSE "done",
                               !.st = it.st, !.pos = it.pos, !.banks = it.banks,
                               !.bank_idx = it.bank_idx,
                               !.iterations = cur.iterations + 1]
         /\ rle' = IF it.st = "scan"
                     THEN [pc |-> "loop"]
                            @@ RleStart(it.chunk, Dense(cur.banks[it.bank_idx]))
                   ELSE rle
  /\ UNCHANGED << containerVars, appVars, ui >>

\* decompress_z80_block has returned: the bank is what it wrote, the body of
\* the while loop is at its end
Z80ScanEnd ==
  /\ cur.pc = "z80_scan"
  /\ rle.pc = "done"
  /\ cur' = [cur EXCEPT !.pc = "z80_blocks", !.st = "loop",
                        !.banks[cur.bank_idx] = Sparse(rle.output)]
  /\ rle' = RleIdle
  /\ UNCHANGED << containerVars, appVars, ui >>

\* the condition fails: the loop is left
Z80BlocksEnd ==
  /\ cur.pc = "z80_blocks"
  /\ ~(cur.pos < Len(Bytes(cur.file)))
  /\ cur' = [cur EXCEPT !.pc = "done", !.st = "end"]
  /\ UNCHANGED << containerVars, codecVars, appVars, ui >>

\* the body of the while loop of convert_szx_to_sna, the cursor at pos: loc
\* are the locals without the page map, pages the page map (a page by its
\* length and its non-zero bytes)
SzxIteration(z, loc, pages, pos, overflow_checks) ==
  IF Len(z) - pos < 4 THEN [st |-> "break", pos |-> pos, loc |-> loc, pages |-> pages]
  ELSE IF Len(z) - pos < 8
    THEN [st |-> "err", pos |-> pos + 4, loc |-> loc, pages |-> pages]
  ELSE
    LET tag        == Slice(z, pos, pos + 4)
        size       == ReadU32(z, pos + 4)
        pos_before == pos + 8
        after      == SzxChunk(z, loc, tag, pos_before, size, overflow_checks)
        inserted   == [q \in DOMAIN after.ram_pages |-> Kept(after.ram_pages[q])]
    IN  IF after.st # "ok"
          THEN [st |-> after.st, pos |-> pos_before, loc |-> loc, pages |-> pages]
        ELSE [st |-> "loop", pos |-> pos_before + size,
              loc |-> [after EXCEPT !.ram_pages = << >>],
              pages |-> [q \in DOMAIN pages \cup DOMAIN inserted |->
                           IF q \in DOMAIN inserted THEN inserted[q] ELSE pages[q]]]

\* while cursor.position() < total_len: the condition holds, the body runs
\* once
SzxChunkIter ==
  /\ cur.pc = "szx_chunks"
  /\ cur.pos < Len(Bytes(cur.file))
  /\ \E it \in { SzxIteration(Bytes(cur.file), cur.loc, cur.pages, cur.pos,
                               cur.overflow_checks) } :
         cur' = [cur EXCEPT !.pc = IF it.st = "loop" THEN "szx_chunks" ELSE "done",
                            !.st = it.st, !.pos = it.pos, !.loc = it.loc,
                            !.pages = it.pages, !.iterations = cur.iterations + 1]
  /\ UNCHANGED << containerVars, codecVars, appVars, ui >>

\* the condition fails: the loop is left
SzxChunksEnd ==
  /\ cur.pc = "szx_chunks"
  /\ ~(cur.pos < Len(Bytes(cur.file)))
  /\ cur' = [cur EXCEPT !.pc = "done", !.st = "end"]
  /\ UNCHANGED << containerVars, codecVars, appVars, ui >>

\* ---- the inputs of the loops ---------------------------------------------

\* blocks of a Format A file: declared length 0; a page identifier that is
\* ignored; a short RLE block; the raw block of a page of 255s; declared
\* lengths that end behind the file; a header cut short
Z80LoopBlocks ==
  << << Lit(<< 0, 0, 8 >>) >>,
     << Lit(<< 2, 0, 99, 1, 2 >>) >>,
     << Lit(<< 5, 0, 4, 237, 237, 3, 7, 9 >>) >>,
     << Seg(<< 255, 255, 5 >>, PAGE, 255) >>,
     << Lit(<< 0, 0, 4 >>) >>,
     << Lit(<< 100, 0, 5, 1, 2 >>) >>,
     << Lit(<< 0, 0, 8 >>) >>,
     << Lit(<< 255, 255, 8, 1, 2, 3 >>) >>,
     << Lit(<< 7, 0 >>) >> >>

\* chunks of a Format B file: unknown ones of declared length 0 and 2; the
\* register chunk; the border chunk, with its 8 bytes and with declared
\* length 0; RAM-page chunks of a page of 255s, of 2 bytes and of declared
\* length 0; declared lengths that end behind the file; a header cut short
SzxLoopChunks ==
  << << Lit(SzxChunkHead(<< 88, 88, 88, 88 >>, 0)) >>,
     << Lit(SzxOtherChunk) >>,
     << Lit(SzxRegsChunk(Regs(36864))) >>,
     << Lit(SzxChunkHead(TAG_SPCR, 0) \o << 3, 4 >>) >>,
     << Lit(SzxSpecChunk(Regs(36864), 5)) >>,
     << Seg(SzxChunkHead(TAG_RAMP, 3 + PAGE) \o << 0, 0, 5 >>, PAGE, 255) >>,
     << Lit(SzxChunkHead(TAG_RAMP, 5) \o << 0, 0, 2, 65, 66 >>) >>,
     << Lit(SzxChunkHead(TAG_RAMP, 0) \o << 0, 0, 2 >>) >>,
     << Lit(SzxChunkHead(<< 88, 88, 88, 88 >>, 0)) >>,
     << Lit(SzxChunkHead(<< 88, 88, 88, 88 >>, 1000) \o << 1, 2 >>) >>,
     << Lit(SzxChunkHead(TAG_Z80R, HugeSize)) >>,
     << Lit(SzxOtherChunk) >>,
     << Lit(<< 82, 65, 77, 80, 9 >>) >>,
     << Lit(SzxChunkHead(<< 88, 88, 88, 88 >>, 0)) >>,
     << Lit(<< 82, 65 >>) >> >>

\* the parts one after another
RECURSIVE Flat(_)
Flat(parts) == IF parts = << >> THEN << >> ELSE Head(parts) \o Flat(Tail(parts))

\* the files of 0..n parts that follow one another in parts
FilesOf(parts, n) ==
  { Flat(SubSeq(parts, w[1], w[1] + w[2] - 1)) :
      w \in { w \in (1..Len(parts)) \X (0..n) : w[1] + w[2] - 1 <= Len(parts) } }

\* the scans: a marker group, a marker cut short, bytes, more than fits
LoopRleInputs ==
  { << >>, << 237, 237, 5, 65 >>, << 1, 2, 3 >>, << 237, 237, 0, 7, 237 >>,
    << 237, 237, 2 >>, << 237, 0, 237, 237, 2, 9, 1 >> }

InitLoops ==
  /\ ContainerIdle
  /\ app = AppIdle
  /\ held = NoHeld
  /\ ui = UiIdle
  /\ \/ /\ cur = CurIdle
        /\ \E input \in LoopRleInputs, cap \in 0..3 :
             rle = [pc |-> "loop"] @@ RleStart(input, Fill(cap, RleOld))
     \/ /\ rle = RleIdle
        /\ \E blocks \in FilesOf(Z80LoopBlocks, MaxBlocks), hw \in {0, 3} :
             LET header == Z80BaseFile(Regs(36864), 0, FALSE) \o LE16(23)
                             \o << 35, 129, hw, 0 >> \o Fill(19, 0)
             IN  cur = [pc |-> "z80_blocks", st |-> "loop",
                        file |-> << Lit(header) >> \o blocks,
                        hardware_mode |-> Z80Ext(header, Z80Header(header)).hardware_mode,
                        pos |-> Z80Ext(header, Z80Header(header)).pos,
                        banks |-> [p \in 0..7 |-> ZeroPage],
                        bank_idx |-> -1, iterations |-> 0]
     \/ /\ rle = RleIdle
        /\ \E chunks \in FilesOf(SzxLoopChunks, MaxBlocks), overflow_checks \in BOOLEAN :
             cur = [pc |-> "szx_chunks", st |-> "loop",
                    file |-> << Lit(SZX_SIGNATURE \o << 1, 4, 1, 0 >>) >> \o chunks,
                    overflow_checks |-> overflow_checks,
                    pos |-> 8, loc |-> SzxStart, pages |-> << >>,
                    iterations |-> 0]

NextLoops ==
  \/ RleMarkerStep \/ RleCopyStep \/ RleReturn
  \/ Z80BlockIter \/ Z80ScanEnd \/ Z80BlocksEnd
  \/ SzxChunkIter \/ SzxChunksEnd

\* a loop that can take a step takes it: the decoder runs on its thread
\* until it returns
SpecLoops == InitLoops /\ [][NextLoops]_vars /\ WF_vars(NextLoops)

\* no loop is under way
LoopsLeft == rle.pc # "loop" /\ cur.pc \notin {"z80_blocks", "z80_scan", "szx_chunks"}

\* C29: every decoding loop terminates on every finite input: the RLE scan,
\* the Format A block loop (also for blocks of declared length 0, ignored
\* page identifiers and a block running past the end of input) and the
\* Format B chunk loop (also for chunks of declared length 0 and a declared
\* length running past the end of input); each iteration either strictly
\* advances the read position or leaves the loop.
C29_LoopsTerminate ==
  /\ <>LoopsLeft
  /\ [][ /\ (rle.pc = "loop" /\ rle'.pc = "loop") => rle'.i > rle.i
         /\ (cur.pc = "z80_blocks" /\ cur'.pc \in {"z80_blocks", "z80_scan"})
              => cur'.pos > cur.pos
         /\ (cur.pc = "szx_chunks" /\ cur'.pc = "szx_chunks")
              => cur'.pos > cur.pos ]_vars

\* the chunk loop has run twice and is left by its condition, behind a
\* chunk of declared length 0
C29_Witness ==
  /\ cur.pc = "done" /\ cur.st = "end"
  /\ cur.iterations = 2
  /\ Len(Bytes(cur.file)) = 8 + 8 + 8 + 2
  /\ Slice(Bytes(cur.file), 12, 16) = << 0, 0, 0, 0 >>

\* ---------------------------------------------------------------------
\* about_to_wait: the frame scheduler
\* Times are microseconds. An Instant is era * 2^32 frame periods + t with t
\* far below an era, so that a backlog of 2^32 frames and more can be told
\* from a short one.
\* ---------------------------------------------------------------------

\* target_frame_duration, in microseconds
FRAME == 20000

\* the latest clock reading within an era
MaxTime == 300000

Instant(era, t) == [era |-> era, t |-> t]

\* instant + Duration (instant - Duration for d < 0)
Later(instant, d) == [instant EXCEPT !.t = instant.t + d]

\* a >= b on Instants
NotBefore(a, b) == a.era > b.era \/ (a.era = b.era /\ a.t >= b.t)

\* (now.duration_since(last).as_micros() / FRAME) as u32, for now >= last:
\* the quotient is eras * 2^32 + (dt div FRAME), the cast keeps its low 32
\* bits
frames_behind(now, last) ==
  LET eras  == now.era - last.era
      whole == (now.t - last.t) \div FRAME
  IN  IF eras = 0 \/ whole >= 0 THEN whole ELSE 2147483647

\* about_to_wait with a window: ui.now is what Instant::now() returns.
\* (Without a window the handler returns at once and changes nothing.)
AboutToWait ==
  /\ ui.pc \in {"running", "waiting"}
  /\ LET now == ui.now
         next_frame_time == Later(ui.last_frame_time, FRAME)
     IN  ui' =
           IF ui.is_full_speed
             THEN [ui EXCEPT !.pc = "waiting", !.frames = 1, !.last_frame_time = now]
           ELSE IF ~NotBefore(now, next_frame_time)
             THEN [ui EXCEPT !.pc = "waiting", !.frames = 0]
           ELSE
             LET behind        == frames_behind(now, ui.last_frame_time)
                 frames_to_run == IF behind > 10 THEN 10 ELSE behind
                 from          == IF behind > 10 THEN Later(now, -(10 * FRAME))
                                  ELSE ui.last_frame_time
             IN  [ui EXCEPT !.pc = "waiting", !.frames = frames_to_run,
                            !.last_frame_time = Later(from, frames_to_run * FRAME)]
  /\ UNCHANGED << containerVars, codecVars, appVars, cur >>

\* F10, not a repeat: full speed on or off
KeyF10 ==
  /\ ui.pc \in {"running", "waiting"}
  /\ ui' = [ui EXCEPT !.pc = "running", !.is_full_speed = ~ui.is_full_speed,
                      !.osd_message = [text |-> IF ~ui.is_full_speed THEN "SPEED: FULL"
                                                ELSE "SPEED: 1X", n |-> 0]]
  /\ UNCHANGED << containerVars, codecVars, appVars, cur >>

\* the time between two events: half a frame, more than ten frames
TickSteps == {10000, 230000}

\* the clock moves on
Tick ==
  /\ ui.pc \in {"running", "waiting"}
  /\ \E d \in TickSteps :
       /\ ui.now.t + d <= MaxTime
       /\ ui' = [ui EXCEPT !.pc = "running", !.now = Later(ui.now, d)]
  /\ UNCHANGED << containerVars, codecVars, appVars, cur >>

\* the process is held for 2^32 frame periods (about 2.7 years), a little
\* less or a little more
Stall ==
  /\ ui.pc \in {"running", "waiting"}
  /\ ui.now.era = 0
  /\ \E d \in {-30000, 0, 60000} :
       /\ ui.now.t + d <= MaxTime
       /\ ui' = [ui EXCEPT !.pc = "running", !.now = Instant(1, ui.now.t + d)]
  /\ UNCHANGED << containerVars, codecVars, appVars, cur >>

InitFrames ==
  /\ ContainerIdle
  /\ rle = RleIdle
  /\ app = AppIdle
  /\ held = NoHeld
  /\ cur = CurIdle
  /\ ui = [UiIdle EXCEPT !.pc = "running"]

NextFrames == AboutToWait \/ KeyF10 \/ Tick \/ Stall

SpecFrames == InitFrames /\ [][NextFrames]_vars

\* C30: in normal-speed mode one wake-up of the frame scheduler emulates at
\* most 10 frames however far behind real time it is, and after every
\* wake-up last_frame_time <= now < last_frame_time + 20 ms: no backlog is
\* carried over to the next wake-up.
C30_NoBacklog ==
  (ui.pc = "waiting" /\ ~ui.is_full_speed) =>
    /\ ui.frames <= 10
    /\ NotBefore(ui.now, ui.last_frame_time)
    /\ ~NotBefore(ui.now, Later(ui.last_frame_time, FRAME))

====
